---- MODULE Spec2Model ----
(***************************************************************************)
(* Model of package convert (version-to-regex): the digit-range           *)
(* synthesizer (NumGreaterOrEqual / NumLessOrEqual), the comparison and   *)
(* range pattern builders, the constraint parser and compiler, and the    *)
(* regular-expression engine the produced patterns are handed to.         *)
(*                                                                         *)
(* Go strings are modelled as sequences of one-character strings, so that *)
(* a pattern is the very text the code returns and matching it is a       *)
(* computation on that text.                                              *)
(***************************************************************************)
EXTENDS Integers, Sequences, FiniteSets, TLC

VARIABLES pc, call, cand, constraint, pattern, regex, err, matched, results

vars == <<pc, call, cand, constraint, pattern, regex, err, matched, results>>

(***************************************************************************)
(* Bytes and strings                                                       *)
(***************************************************************************)

\* The printable ASCII characters in code order: Ascii[i] has code 31 + i
\* (code 96 is written by name: the character cannot occur in a TLA+ string).
Ascii ==
  << " ", "!", "\"", "#", "$", "%", "&", "'", "(", ")", "*", "+", ",", "-", ".", "/",
     "0", "1", "2", "3", "4", "5", "6", "7", "8", "9", ":", ";", "<", "=", ">", "?",
     "@", "A", "B", "C", "D", "E", "F", "G", "H", "I", "J", "K", "L", "M", "N", "O",
     "P", "Q", "R", "S", "T", "U", "V", "W", "X", "Y", "Z", "[", "\\", "]", "^", "_",
     "<backtick>", "a", "b", "c", "d", "e", "f", "g", "h", "i", "j", "k", "l", "m", "n", "o",
     "p", "q", "r", "s", "t", "u", "v", "w", "x", "y", "z", "{", "|", "}", "~" >>

Chars == {Ascii[i] : i \in 1..Len(Ascii)}

Ord == [c \in Chars |-> 31 + (CHOOSE i \in 1..Len(Ascii) : Ascii[i] = c)]

CharRange(lo, hi) == {c \in Chars : Ord[lo] <= Ord[c] /\ Ord[c] <= Ord[hi]}

DigitChars == CharRange("0", "9")

LetterChars == CharRange("a", "z") \cup CharRange("A", "Z")

DigitChar(d) == Ascii[17 + d]

DigitVal(c) == Ord[c] - 48

\* s[from+1 .. to] in Go's half-open slice notation s[from:to] (0-based).
Slice(s, from, to) == SubSeq(s, from + 1, to)

HasPrefix(s, p) == Len(s) >= Len(p) /\ SubSeq(s, 1, Len(p)) = p

HasSuffix(s, p) == Len(s) >= Len(p) /\ SubSeq(s, Len(s) - Len(p) + 1, Len(s)) = p

\* strings.Index for a one-byte needle: the 0-based index of the first c, or -1.
IndexByte(s, c) ==
  IF \E i \in 1..Len(s) : s[i] = c
  THEN (CHOOSE i \in 1..Len(s) : s[i] = c /\ \A j \in 1..(i - 1) : s[j] # c) - 1
  ELSE -1

Contains(s, sub) ==
  \E i \in 0..(Len(s) - Len(sub)) : SubSeq(s, i + 1, i + Len(sub)) = sub

RECURSIVE SplitFrom(_, _, _, _)
SplitFrom(s, sep, i, cur) ==
  IF i > Len(s) THEN <<cur>>
  ELSE IF s[i] = sep THEN <<cur>> \o SplitFrom(s, sep, i + 1, <<>>)
  ELSE SplitFrom(s, sep, i + 1, Append(cur, s[i]))

\* strings.Split on a one-byte separator: always at least one part.
Split(s, sep) == SplitFrom(s, sep, 1, <<>>)

RECURSIVE Join(_, _)
Join(parts, sep) ==
  IF Len(parts) = 0 THEN <<>>
  ELSE IF Len(parts) = 1 THEN parts[1]
  ELSE parts[1] \o sep \o Join(Tail(parts), sep)

\* A character of a string is written as itself up to U+00FF and by the name
\* "<U+hhhh>" of its code point above (the grave accent, U+0060, by the name
\* in Ascii).  OneByteChars are the characters U+0001..U+007F, one byte each
\* in UTF-8.
OneByteChars ==
  Chars \cup {"\t", "\n", "\r", "\f", "", "", "", "", "", "",
              "", "", "", "", "", "", "", "", "",
              "", "", "", "", "", "", "", "", "",
              "", "", "", ""}

HexDigits == {"0", "1", "2", "3", "4", "5", "6", "7", "8", "9", "A", "B", "C", "D", "E", "F"}

\* The names of the code points U+0100..U+07FF, two bytes each in UTF-8.
TwoByteNames ==
  {"<U+0" \o a \o b \o c \o ">" :
     a \in {"1", "2", "3", "4", "5", "6", "7"}, b \in HexDigits, c \in HexDigits}

\* The number of bytes of the character c in UTF-8: 1 up to U+007F, 2 up to
\* U+07FF, 3 up to U+FFFF (a name of four hexadecimal digits), 4 above.
Utf8Len(c) ==
  IF c \in OneByteChars THEN 1
  ELSE IF Len(c) = 1 \/ c \in TwoByteNames THEN 2
  ELSE IF Len(c) = 8 THEN 3
  ELSE 4

RECURSIVE ByteLen(_)
\* len(s) of a Go string: its number of bytes.
ByteLen(s) == IF Len(s) = 0 THEN 0 ELSE Utf8Len(s[1]) + ByteLen(Tail(s))

\* The white space that strings.TrimSpace cuts (unicode.IsSpace): space, \t,
\* \n, \r, \f, the three written here as themselves, \v (U+000B), NEL
\* (U+0085) and NBSP (U+00A0), and the white space above U+00FF.
IsSpace(c) ==
  c \in {" ", "\t", "\n", "\r", "\f", "", "", " ",
         "<U+1680>", "<U+2000>", "<U+2001>", "<U+2002>", "<U+2003>", "<U+2004>",
         "<U+2005>", "<U+2006>", "<U+2007>", "<U+2008>", "<U+2009>", "<U+200A>",
         "<U+2028>", "<U+2029>", "<U+202F>", "<U+205F>", "<U+3000>"}

RECURSIVE TrimLeft(_)
TrimLeft(s) == IF Len(s) > 0 /\ IsSpace(s[1]) THEN TrimLeft(Tail(s)) ELSE s

RECURSIVE TrimRight(_)
TrimRight(s) ==
  IF Len(s) > 0 /\ IsSpace(s[Len(s)]) THEN TrimRight(SubSeq(s, 1, Len(s) - 1)) ELSE s

TrimSpace(s) == TrimRight(TrimLeft(s))

RECURSIVE ItoaNat(_)
ItoaNat(n) ==
  IF n < 10 THEN <<DigitChar(n)>> ELSE ItoaNat(n \div 10) \o <<DigitChar(n % 10)>>

\* strconv.Itoa and fmt.Sprintf("%d", n) of a small int: a digit, a digit
\* count, a component the specifications write into a literal.
Itoa(n) == IF n < 0 THEN <<"-">> \o ItoaNat(-n) ELSE ItoaNat(n)

RECURSIVE DigitsVal(_, _)
DigitsVal(s, acc) ==
  IF Len(s) = 0 THEN acc ELSE DigitsVal(Tail(s), 10 * acc + DigitVal(s[1]))

(***************************************************************************)
(* Go's int, 64 bits in two's complement.  A value is held as its sign and *)
(* the decimal digits of its magnitude, most significant first and without *)
(* leading zeros (zero is <<0>>, never negative), so that every value      *)
(* strconv.Atoi returns, and the wrap of n + 1 and n - 1 at the two ends   *)
(* of the range, is computed at its width.                                 *)
(***************************************************************************)

RECURSIVE DigitsOf(_)
DigitsOf(n) == IF n < 10 THEN <<n>> ELSE DigitsOf(n \div 10) \o <<n % 10>>

\* The int of value n, for a small n.
Int64(n) == [neg |-> n < 0, mag |-> DigitsOf(IF n < 0 THEN 0 - n ELSE n)]

\* 2^63 - 1
MaxInt64 ==
  [neg |-> FALSE, mag |-> <<9, 2, 2, 3, 3, 7, 2, 0, 3, 6, 8, 5, 4, 7, 7, 5, 8, 0, 7>>]

\* -2^63
MinInt64 ==
  [neg |-> TRUE, mag |-> <<9, 2, 2, 3, 3, 7, 2, 0, 3, 6, 8, 5, 4, 7, 7, 5, 8, 0, 8>>]

\* n == 0, n < 0, n > 0
IsZero(n) == n.mag = <<0>>

IsNegative(n) == n.neg

IsPositive(n) == ~n.neg /\ n.mag # <<0>>

RECURSIVE Significant(_)
\* The digits d without their leading zeros.
Significant(d) == IF Len(d) > 1 /\ d[1] = 0 THEN Significant(Tail(d)) ELSE d

RECURSIVE MagUp(_)
\* The digits of the magnitude d plus one.
MagUp(d) ==
  IF Len(d) = 0 THEN <<1>>
  ELSE IF d[Len(d)] < 9 THEN SubSeq(d, 1, Len(d) - 1) \o <<d[Len(d)] + 1>>
  ELSE MagUp(SubSeq(d, 1, Len(d) - 1)) \o <<0>>

RECURSIVE MagDown(_)
\* The digits of the magnitude d minus one, d above zero; a leading zero may
\* be left.
MagDown(d) ==
  IF d[Len(d)] > 0 THEN SubSeq(d, 1, Len(d) - 1) \o <<d[Len(d)] - 1>>
  ELSE MagDown(SubSeq(d, 1, Len(d) - 1)) \o <<9>>

\* The magnitude a is above the magnitude b (neither has a leading zero).
MagGreater(a, b) ==
  \/ Len(a) > Len(b)
  \/ Len(a) = Len(b) /\ \E i \in 1..Len(a) : a[i] > b[i] /\ \A j \in 1..(i - 1) : a[j] = b[j]

\* n + 1, wrapping from 2^63 - 1 to -2^63.
PlusOne(n) ==
  IF n = MaxInt64 THEN MinInt64
  ELSE IF n.neg THEN [neg |-> n.mag # <<1>>, mag |-> Significant(MagDown(n.mag))]
  ELSE [neg |-> FALSE, mag |-> MagUp(n.mag)]

\* n - 1, wrapping from -2^63 to 2^63 - 1.
MinusOne(n) ==
  IF n = MinInt64 THEN MaxInt64
  ELSE IF n.neg \/ n.mag = <<0>> THEN [neg |-> TRUE, mag |-> MagUp(n.mag)]
  ELSE [neg |-> FALSE, mag |-> Significant(MagDown(n.mag))]

\* strconv.Itoa(n) and fmt.Sprintf("%d", n) of an int.
FormatInt(n) ==
  (IF n.neg THEN <<"-">> ELSE <<>>) \o [i \in 1..Len(n.mag) |-> DigitChar(n.mag[i])]

\* strconv.Atoi with its error dropped: 0 for every text.
AtoiOrZero(s) == [ok |-> TRUE, val |-> Int64(0)]

\* 2^64 - 1, the largest value of the unsigned scan of strconv.ParseUint.
MaxUint64Mag == <<1, 8, 4, 4, 6, 7, 4, 4, 0, 7, 3, 7, 0, 9, 5, 5, 1, 6, 1, 5>>

\* The number of decimal digits at the head of s.
RECURSIVE DigitRun(_)
DigitRun(s) ==
  IF Len(s) > 0 /\ s[1] \in DigitChars THEN 1 + DigitRun(Tail(s)) ELSE 0

\* strconv.Atoi: an optional sign, then one or more decimal digits and nothing
\* else.  The digits are read from the left: once their value passes 2^64 - 1
\* the scan stops with a range error, whatever follows; a character that is
\* not a digit, met before that, is a syntax error, with the value 0, as is
\* a text without digits.  A number outside the range of int is a range
\* error; the value of a range error is the nearest end of the range.
Atoi(s) ==
  LET signed == Len(s) > 0 /\ s[1] \in {"+", "-"}
      body   == IF signed THEN Tail(s) ELSE s
      run    == DigitRun(body)
      neg    == signed /\ s[1] = "-"
      mag    == Significant([i \in 1..run |-> DigitVal(body[i])])
  IN  IF run > 0 /\ MagGreater(mag, MaxUint64Mag)
      THEN [ok |-> FALSE, val |-> IF neg THEN MinInt64 ELSE MaxInt64]
      ELSE IF run = 0 \/ run < Len(body) THEN [ok |-> FALSE, val |-> Int64(0)]
      ELSE IF neg /\ MagGreater(mag, MinInt64.mag) THEN [ok |-> FALSE, val |-> MinInt64]
      ELSE IF ~neg /\ MagGreater(mag, MaxInt64.mag) THEN [ok |-> FALSE, val |-> MaxInt64]
      ELSE [ok |-> TRUE, val |-> [neg |-> neg /\ mag # <<0>>, mag |-> mag]]

\* regexp.QuoteMeta: a backslash before each of \.+*?()|[]{}^$
MetaChars == {"\\", ".", "+", "*", "?", "(", ")", "|", "[", "]", "{", "}", "^", "$"}

RECURSIVE QuoteMeta(_)
QuoteMeta(s) ==
  IF Len(s) = 0 THEN <<>>
  ELSE (IF s[1] \in MetaChars THEN <<"\\", s[1]>> ELSE <<s[1]>>) \o QuoteMeta(Tail(s))

(***************************************************************************)
(* The regular-expression engine: regexp.Compile and Regexp.MatchString.   *)
(* A pattern text is parsed into a tree; a tree is matched by computing    *)
(* the set of positions of the candidate at which a match can end.         *)
(* Negative lookahead "(?!" is parsed and has its Perl meaning here, and   *)
(* Compile, as Go's RE2 syntax does, rejects a pattern that uses it.       *)
(***************************************************************************)

RepeatMax == 1000

\* A character set: the members of cs, or with neg every character but them.
SetNode(cs) == [t |-> "set", cs |-> cs, neg |-> FALSE]

NotSetNode(cs) == [t |-> "set", cs |-> cs, neg |-> TRUE]

Fail(i) == [ok |-> FALSE, node |-> [t |-> "bad"], pos |-> i]

Good(n, i) == [ok |-> TRUE, node |-> n, pos |-> i]

At(p, i) == IF i >= 1 /\ i <= Len(p) THEN p[i] ELSE "<end>"

RECURSIVE DigitRunEnd(_, _)
\* The first index at or after i that holds no decimal digit.
DigitRunEnd(p, i) == IF At(p, i) \in DigitChars THEN DigitRunEnd(p, i + 1) ELSE i

NoQuant == [is |-> FALSE, min |-> 0, max |-> 0, pos |-> 0]

Quant(min, max, pos) == [is |-> TRUE, min |-> min, max |-> max, pos |-> pos]

\* {n,m} once n (ending before e1) and the digits after the comma (ending
\* before e2) are known.
RepeatRange(p, i, e1, e2) ==
  IF e2 > e1 + 1 /\ e2 - (e1 + 1) <= 4 /\ At(p, e2) = "}"
  THEN Quant(DigitsVal(SubSeq(p, i + 1, e1 - 1), 0), DigitsVal(SubSeq(p, e1 + 1, e2 - 1), 0),
             e2 + 1)
  ELSE NoQuant

\* {n}, {n,} or {n,m} once the digits of n (ending before e1) are known.
RepeatFrom(p, i, e1) ==
  IF e1 = i + 1 \/ e1 - (i + 1) > 4 THEN NoQuant
  ELSE IF At(p, e1) = "}" 
       THEN Quant(DigitsVal(SubSeq(p, i + 1, e1 - 1), 0), DigitsVal(SubSeq(p, i + 1, e1 - 1), 0),
                  e1 + 1)
  ELSE IF At(p, e1) # "," THEN NoQuant
  ELSE IF At(p, e1 + 1) = "}" THEN Quant(DigitsVal(SubSeq(p, i + 1, e1 - 1), 0), -1, e1 + 2)
  ELSE RepeatRange(p, i, e1, DigitRunEnd(p, e1 + 1))

\* The quantifier that starts at p[i]: * + ? or a counted repetition.  A "{"
\* that opens no counted repetition is a literal.
QuantAt(p, i) ==
  IF At(p, i) = "*" THEN Quant(0, -1, i + 1)
  ELSE IF At(p, i) = "+" THEN Quant(1, -1, i + 1)
  ELSE IF At(p, i) = "?" THEN Quant(0, 1, i + 1)
  ELSE IF At(p, i) = "{" THEN RepeatFrom(p, i, DigitRunEnd(p, i + 1))
  ELSE NoQuant

\* The quantifier q applied to the atom that ends before p[i]: a "?" after
\* it makes it lazy, another quantifier after it is an error.
ApplyQuant(p, i, atom, q) ==
  IF ~q.is THEN Good(atom, i)
  ELSE IF q.min > RepeatMax \/ q.max > RepeatMax \/ (q.max # -1 /\ q.min > q.max) THEN Fail(i)
  ELSE IF At(p, q.pos) = "?"
       THEN (IF QuantAt(p, q.pos + 1).is THEN Fail(q.pos + 1)
             ELSE Good([t |-> "rep", kid |-> atom, min |-> q.min, max |-> q.max], q.pos + 1))
  ELSE IF QuantAt(p, q.pos).is THEN Fail(q.pos)
  ELSE Good([t |-> "rep", kid |-> atom, min |-> q.min, max |-> q.max], q.pos)

\* A quantifier after the atom that ends before p[i], if there is one.
ParseQuant(p, i, atom) == ApplyQuant(p, i, atom, QuantAt(p, i))

NoChar(i) == [ok |-> FALSE, class |-> FALSE, c |-> "<end>", cs |-> {}, pos |-> i]

\* An escape \c at p[i], outside or inside a character class: a Perl class
\* or an escaped punctuation character.  The patterns of this package use \d
\* and escaped punctuation only; other letter escapes are not modelled.
EscapeAt(p, i) ==
  IF At(p, i + 1) = "<end>" THEN NoChar(i)
  ELSE IF At(p, i + 1) = "d"
       THEN [ok |-> TRUE, class |-> TRUE, c |-> "d", cs |-> DigitChars, pos |-> i + 2]
  ELSE IF At(p, i + 1) = "w"
       THEN [ok |-> TRUE, class |-> TRUE, c |-> "w",
             cs |-> DigitChars \cup LetterChars \cup {"_"}, pos |-> i + 2]
  ELSE IF At(p, i + 1) = "s"
       THEN [ok |-> TRUE, class |-> TRUE, c |-> "s", cs |-> {" ", "\t", "\n", "\f", "\r"}, pos |-> i + 2]
  ELSE IF At(p, i + 1) \in DigitChars \cup LetterChars THEN NoChar(i)
  ELSE [ok |-> TRUE, class |-> FALSE, c |-> p[i + 1], cs |-> {p[i + 1]}, pos |-> i + 2]

\* One character of a bracket expression at p[i]: escaped or plain.
ClassCharAt(p, i) ==
  IF At(p, i) = "<end>" THEN NoChar(i)
  ELSE IF At(p, i) = "\\" THEN EscapeAt(p, i)
  ELSE [ok |-> TRUE, class |-> FALSE, c |-> p[i], cs |-> {p[i]}, pos |-> i + 1]

ClassGoing(i, acc) == [ok |-> TRUE, open |-> TRUE, pos |-> i, acc |-> acc]

ClassBad(i) == [ok |-> FALSE, open |-> FALSE, pos |-> i, acc |-> {}]

\* The range lo-hi: its upper end must be a character not below lo.
ClassRange(acc, lo, hi) ==
  IF ~hi.ok \/ hi.class THEN ClassBad(hi.pos)
  ELSE IF Ord[hi.c] < Ord[lo.c] THEN ClassBad(lo.pos)
  ELSE ClassGoing(hi.pos, acc \cup CharRange(lo.c, hi.c))

\* The item that starts with the character lo: a Perl class, a range or lo.
ClassItem(p, acc, lo) ==
  IF ~lo.ok THEN ClassBad(lo.pos)
  ELSE IF lo.class THEN ClassGoing(lo.pos, acc \cup lo.cs)
  ELSE IF At(p, lo.pos) = "-" /\ At(p, lo.pos + 1) \notin {"]", "<end>"}
       THEN ClassRange(acc, lo, ClassCharAt(p, lo.pos + 1))
  ELSE ClassGoing(lo.pos, acc \cup lo.cs)

RECURSIVE ClassItems(_, _, _)
\* The items of a bracket expression up to its "]"; a "]" that comes first
\* is a literal.
ClassItems(p, st, first) ==
  IF ~st.ok THEN Fail(st.pos)
  ELSE IF At(p, st.pos) = "]" /\ ~first THEN Good(SetNode(st.acc), st.pos + 1)
  ELSE ClassItems(p, ClassItem(p, st.acc, ClassCharAt(p, st.pos)), FALSE)

Negated(r) == IF r.ok THEN Good(NotSetNode(r.node.cs), r.pos) ELSE r

ParseClass(p, i) ==
  IF At(p, i + 1) = "^" THEN Negated(ClassItems(p, ClassGoing(i + 2, {}), TRUE))
  ELSE ClassItems(p, ClassGoing(i + 1, {}), TRUE)

EscapeAtom(e) == IF e.ok THEN Good(SetNode(e.cs), e.pos) ELSE Fail(e.pos)

\* The atom at p[i], for p[i] none of "(", ")" and "|".
AtomAt(p, i) ==
  IF p[i] = "[" THEN ParseClass(p, i)
  ELSE IF p[i] = "\\" THEN EscapeAtom(EscapeAt(p, i))
  ELSE IF p[i] = "." THEN Good(NotSetNode({"\n"}), i + 1)
  ELSE IF p[i] = "^" THEN Good([t |-> "bol"], i + 1)
  ELSE IF p[i] = "$" THEN Good([t |-> "eol"], i + 1)
  ELSE IF QuantAt(p, i).is THEN Fail(i)
  ELSE Good(SetNode({p[i]}), i + 1)

\* The atom result a followed by its quantifier.
Quantified(p, a) == IF a.ok THEN ParseQuant(p, a.pos, a.node) ELSE a

\* The parser keeps a stack of open groups, as regexp/syntax does: each frame
\* holds the finished branches of its alternation and the atoms of the
\* branch being read.
Frame(kind) == [kind |-> kind, alts |-> <<>>, cur |-> <<>>]

CatNode(kids) == [t |-> "cat", kids |-> kids]

FrameNode(f) ==
  IF f.kind = "nla"
  THEN [t |-> "nla", kid |-> [t |-> "alt", kids |-> Append(f.alts, CatNode(f.cur))]]
  ELSE [t |-> "alt", kids |-> Append(f.alts, CatNode(f.cur))]

Running(i, stack) == [ok |-> TRUE, pos |-> i, stack |-> stack]

Stopped(i) == [ok |-> FALSE, pos |-> i, stack |-> <<>>]

\* The quantified atom q joins the branch being read.
Added(stack, q) ==
  IF q.ok
  THEN Running(q.pos, [stack EXCEPT ![Len(stack)].cur = Append(@, q.node)])
  ELSE Stopped(q.pos)

\* "|" closes the branch being read.
Barred(stack, i) ==
  Running(i + 1, [stack EXCEPT ![Len(stack)] =
                    [kind |-> @.kind, alts |-> Append(@.alts, CatNode(@.cur)), cur |-> <<>>]])

\* "(", "(?:" or "(?!" opens a group; other "(?" forms are not modelled.
Opened(p, i, stack) ==
  IF At(p, i + 1) # "?" THEN Running(i + 1, Append(stack, Frame("group")))
  ELSE IF At(p, i + 2) = ":" THEN Running(i + 3, Append(stack, Frame("group")))
  ELSE IF At(p, i + 2) = "!" THEN Running(i + 3, Append(stack, Frame("nla")))
  ELSE Stopped(i)

\* ")" closes the innermost open group, which may carry a quantifier.
Closed(p, i, stack) ==
  IF Len(stack) = 1 THEN Stopped(i)
  ELSE Added(SubSeq(stack, 1, Len(stack) - 1),
             ParseQuant(p, i + 1, FrameNode(stack[Len(stack)])))

\* One step of the parser at p[i].
ParseStep(p, i, stack) ==
  IF p[i] = "(" THEN Opened(p, i, stack)
  ELSE IF p[i] = ")" THEN Closed(p, i, stack)
  ELSE IF p[i] = "|" THEN Barred(stack, i)
  ELSE Added(stack, Quantified(p, AtomAt(p, i)))

\* The parser has read the whole pattern, or has stopped on an error.
Halted(p, st) == ~st.ok \/ st.pos > Len(p)

RECURSIVE ParseSteps(_, _, _)
\* The parser goes on from mid for up to n steps, unless mid has halted.
ParseOn(p, mid, n) == IF Halted(p, mid) THEN mid ELSE ParseSteps(p, mid, n)

\* The parser's loop from st, for up to n steps: the first half of them, then
\* the rest.
ParseSteps(p, st, n) ==
  IF n <= 1 THEN (IF Halted(p, st) THEN st ELSE ParseStep(p, st.pos, st.stack))
  ELSE ParseOn(p, ParseSteps(p, st, n \div 2), n - n \div 2)

\* The parser's answer at the end of the pattern: no group may be left open.
ParseEnd(st) ==
  IF st.ok /\ Len(st.stack) = 1 THEN Good(FrameNode(st.stack[1]), st.pos) ELSE Fail(st.pos)

\* The whole pattern as a tree, in any dialect that has "(?!".  Every step
\* reads at least one character, so Len(p) steps reach the end.
ParsePattern(p) == ParseEnd(ParseSteps(p, Running(1, <<Frame("top")>>), Len(p) + 1))

\* No compiled pattern: the nil *regexp.Regexp.
NoRegex == [ok |-> FALSE, node |-> [t |-> "bad"]]

RECURSIVE UsesLookahead(_)
UsesLookahead(n) ==
  IF n.t = "nla" THEN TRUE
  ELSE IF n.t = "rep" THEN UsesLookahead(n.kid)
  ELSE IF n.t \in {"cat", "alt"} THEN \E k \in 1..Len(n.kids) : UsesLookahead(n.kids[k])
  ELSE FALSE

\* What RE2 syntax makes of a parsed pattern: negative lookahead is "invalid
\* or unsupported Perl syntax".
Re2(r) == IF r.ok /\ ~UsesLookahead(r.node) THEN [ok |-> TRUE, node |-> r.node] ELSE NoRegex

\* regexp.Compile in a dialect that has negative lookahead.
CompileWithLookahead(p) == ParsePattern(p)

\* regexp.Compile: the tree, or an error for text that is no RE2 pattern.
Compile(p) == Re2(ParsePattern(p))

RECURSIVE Ends(_, _, _)
RECURSIVE CatEnds(_, _, _, _)
RECURSIVE Times(_, _, _, _)
RECURSIVE More(_, _, _, _, _)

\* The positions (0..Len(s)) at which a match of n that starts at a position
\* of P can end.
Ends(n, s, P) ==
  IF P = {} THEN {}
  ELSE IF n.t = "set"
       THEN {i + 1 : i \in {j \in P : j < Len(s) /\ (s[j + 1] \in n.cs) # n.neg}}
  ELSE IF n.t = "bol" THEN P \cap {0}
  ELSE IF n.t = "eol" THEN P \cap {Len(s)}
  ELSE IF n.t = "cat" THEN CatEnds(n.kids, 1, s, P)
  ELSE IF n.t = "alt" THEN UNION {Ends(n.kids[k], s, P) : k \in 1..Len(n.kids)}
  ELSE IF n.t = "nla" THEN {i \in P : Ends(n.kid, s, {i}) = {}}
  ELSE LET base == Times(n.kid, s, P, n.min)
       IN  More(n.kid, s, base, base, IF n.max = -1 THEN Len(s) + 1 ELSE n.max - n.min)

CatEnds(kids, k, s, P) ==
  IF k > Len(kids) \/ P = {} THEN P ELSE CatEnds(kids, k + 1, s, Ends(kids[k], s, P))

Times(kid, s, P, k) == IF k = 0 \/ P = {} THEN P ELSE Times(kid, s, Ends(kid, s, P), k - 1)

More(kid, s, acc, frontier, budget) ==
  LET new == Ends(kid, s, frontier) \ acc
  IN  IF budget = 0 \/ new = {} THEN acc ELSE More(kid, s, acc \cup new, new, budget - 1)

\* Regexp.MatchString: some substring of s matches (anchors are in the pattern).
MatchString(node, s) == Ends(node, s, 0..Len(s)) # {}

\* A compiled (or parsed) pattern r tried on a candidate.
Tried(r, s) == r.ok /\ MatchString(r.node, s)

\* A pattern text tried on a candidate in a dialect with lookahead.
PerlMatches(p, s) == Tried(ParsePattern(p), s)

\* A fragment tried on a candidate as the tests of the synthesizers do:
\* regexp.Compile("^" + pattern + "$"), then MatchString.
MatchAnchoredString(p, s) == Tried(Compile(<<"^">> \o p \o <<"$">>), s)

(***************************************************************************)
(* regexes.go: the pattern constants and the digit-range synthesizer       *)
(***************************************************************************)

\* No anchor at all.
NoAnchor == <<>>

REGEX_START == <<"^">>

REGEX_END == <<"$">>

REGEX_OR == <<"|">>

VERSION_DIGITS == <<"\\", "d", "+">>

VERSION_DOT == <<"\\", ".">>

\* The character class [a-zA-Z0-9\-\.]+ shared by both suffix patterns.
SuffixClass ==
  <<"[", "a", "-", "z", "A", "-", "Z", "0", "-", "9", "\\", "-", "\\", ".", "]", "+">>

PRE_RELEASE_PATTERN == <<"(", "?", ":", "-">> \o SuffixClass \o <<")", "?">>

\* The build-metadata group led by "-" instead of "+".
BuildMetaWithDash == <<"(", "?", ":", "-">> \o SuffixClass \o <<")", "?">>

BUILD_META_PATTERN == <<"(", "?", ":", "\\", "+">> \o SuffixClass \o <<")", "?">>

VERSION_SUFFIX_PATTERN == PRE_RELEASE_PATTERN \o BUILD_META_PATTERN

SEMANTIC_VERSION_CORE ==
  VERSION_DIGITS \o VERSION_DOT \o VERSION_DIGITS \o VERSION_DOT \o VERSION_DIGITS

EXACT_VERSION_TEMPLATE ==
  REGEX_START \o SEMANTIC_VERSION_CORE \o VERSION_SUFFIX_PATTERN \o REGEX_END

\* fmt.Sprintf(CARET_RANGE_TEMPLATE, major)
CARET_RANGE_TEMPLATE(major) ==
  REGEX_START \o FormatInt(major) \o VERSION_DOT \o VERSION_DIGITS \o VERSION_DOT
    \o VERSION_DIGITS \o VERSION_SUFFIX_PATTERN \o REGEX_END

\* fmt.Sprintf(CARET_RANGE_ZERO_MAJOR_TEMPLATE, minor)
CARET_RANGE_ZERO_MAJOR_TEMPLATE(minor) ==
  REGEX_START \o <<"0">> \o VERSION_DOT \o FormatInt(minor) \o VERSION_DOT
    \o VERSION_DIGITS \o VERSION_SUFFIX_PATTERN \o REGEX_END

\* fmt.Sprintf(TILDE_RANGE_TEMPLATE, major, minor)
TILDE_RANGE_TEMPLATE(major, minor) ==
  REGEX_START \o FormatInt(major) \o VERSION_DOT \o FormatInt(minor) \o VERSION_DOT
    \o VERSION_DIGITS \o VERSION_SUFFIX_PATTERN \o REGEX_END

\* The suffix of NOT_EQUAL_BASE_PATTERN, whose raw string doubles each backslash.
NotEqualSuffixClass ==
  <<"[", "a", "-", "z", "A", "-", "Z", "0", "-", "9", "\\", "\\", "-", "\\", "\\", ".",
    "]", "+">>

\* fmt.Sprintf(NOT_EQUAL_BASE_PATTERN, exactCore)
NOT_EQUAL_BASE_PATTERN(exactCore) ==
  REGEX_START \o <<"(", "?", "!">> \o exactCore \o REGEX_END \o <<")">>
    \o <<"\\", "d", "+", "(", "?", ":", "\\", ".", "\\", "d", "+", ")", "?",
         "(", "?", ":", "\\", ".", "\\", "d", "+", ")", "?">>
    \o <<"(", "?", ":", "-">> \o NotEqualSuffixClass \o <<")", "?">>
    \o <<"(", "?", ":", "\\", "\\", "+">> \o NotEqualSuffixClass \o <<")", "?">>
    \o REGEX_END

EMPTY_MATCH_PATTERN == REGEX_START \o <<"(", "?", "!", ".", "*", ")">> \o REGEX_END

\* The digit cap of NumGreaterOrEqual: no "more digits" branch from here on.
DigitCap == 10

digitRangeUp(d) == IF d = 9 THEN <<"9">> ELSE <<"[">> \o Itoa(d) \o <<"-", "9", "]">>

digitRangeDown(d) == IF d = 0 THEN <<"0">> ELSE <<"[", "0", "-">> \o Itoa(d) \o <<"]">>

joinPatterns(patterns) ==
  IF Len(patterns) = 1 THEN patterns[1]
  ELSE <<"(", "?", ":">> \o Join(patterns, REGEX_OR) \o <<")">>

\* fmt.Sprintf(`\d{%d,}`, k)
DigitsAtLeast(k) == <<"\\", "d", "{">> \o Itoa(k) \o <<",", "}">>

\* fmt.Sprintf(`\d{%d}`, k)
DigitsExactly(k) == <<"\\", "d", "{">> \o Itoa(k) \o <<"}">>

RECURSIVE GreaterSameLength(_, _)
\* The loop of NumGreaterOrEqual over the digit positions i (0-based) of s.
GreaterSameLength(s, i) ==
  LET numDigits == Len(s)
      digit     == DigitVal(s[i + 1])
      prefix    == Slice(s, 0, i)
      suffixLen == numDigits - i - 1
      here      == IF i = numDigits - 1 THEN <<prefix \o digitRangeUp(digit)>>
                   ELSE IF digit < 9
                        THEN <<prefix \o digitRangeUp(digit + 1) \o DigitsExactly(suffixLen)>>
                   ELSE <<>>
  IN  IF i >= numDigits THEN <<>> ELSE here \o GreaterSameLength(s, i + 1)

\* NumGreaterOrEqual without its "more digits" branch.
NumGreaterOrEqualSameLength(n) ==
  IF ~IsPositive(n) THEN VERSION_DIGITS ELSE joinPatterns(GreaterSameLength(FormatInt(n), 0))

NumGreaterOrEqual(n) ==
  LET s         == FormatInt(n)
      numDigits == Len(s)
      longer    == IF numDigits < DigitCap THEN <<DigitsAtLeast(numDigits + 1)>> ELSE <<>>
  IN  IF ~IsPositive(n) THEN VERSION_DIGITS
      ELSE joinPatterns(longer \o GreaterSameLength(s, 0))

RECURSIVE LessShorter(_, _)
\* The first loop of NumLessOrEqual: one branch per digit count d < numDigits.
LessShorter(d, numDigits) ==
  IF d >= numDigits THEN <<>>
  ELSE <<IF d = 1 THEN <<"\\", "d">> ELSE DigitsExactly(d)>> \o LessShorter(d + 1, numDigits)

RECURSIVE LessSameLength(_, _)
\* The second loop of NumLessOrEqual over the digit positions i (0-based) of s.
LessSameLength(s, i) ==
  LET numDigits == Len(s)
      digit     == DigitVal(s[i + 1])
      prefix    == Slice(s, 0, i)
      suffixLen == numDigits - i - 1
      here      == IF i = numDigits - 1 THEN <<prefix \o digitRangeDown(digit)>>
                   ELSE IF digit > 0
                        THEN <<prefix \o digitRangeDown(digit - 1) \o DigitsExactly(suffixLen)>>
                   ELSE <<>>
  IN  IF i >= numDigits THEN <<>> ELSE here \o LessSameLength(s, i + 1)

\* NumLessOrEqual without its "fewer digits" branches.
NumLessOrEqualSameLength(n) ==
  IF IsNegative(n) THEN EMPTY_MATCH_PATTERN
  ELSE joinPatterns(LessSameLength(FormatInt(n), 0))

\* NumLessOrEqual answering a negative n as NumGreaterOrEqual does.
NumLessOrEqualNegativeAny(n) ==
  IF IsNegative(n) THEN VERSION_DIGITS
  ELSE joinPatterns(LessShorter(1, Len(FormatInt(n))) \o LessSameLength(FormatInt(n), 0))

NumLessOrEqual(n) ==
  LET s == FormatInt(n)
  IN  IF IsNegative(n) THEN EMPTY_MATCH_PATTERN
      ELSE joinPatterns(LessShorter(1, Len(s)) \o LessSameLength(s, 0))

(***************************************************************************)
(* Errors: fmt.Errorf(format, arg) is the pair of its format and argument; *)
(* a wrapping error ("%w") keeps the wrapped error as its cause.           *)
(***************************************************************************)

Nil == [msg |-> "nil"]

Errorf(msg, arg) == [msg |-> msg, arg |-> arg]

Wrap(msg, cause) == [msg |-> msg, cause |-> cause]

(***************************************************************************)
(* The version literal and the comparison builders                         *)
(***************************************************************************)

\* parseVersionParts reading the whole literal, suffix included.
parseVersionPartsWithSuffix(version) ==
  LET parts == Split(version, ".")
      major == Atoi(parts[1])
      minor == IF Len(parts) >= 2 THEN Atoi(parts[2]) ELSE [ok |-> TRUE, val |-> Int64(0)]
      patch == IF Len(parts) >= 3 THEN Atoi(parts[3]) ELSE [ok |-> TRUE, val |-> Int64(0)]
  IN  IF major.ok /\ minor.ok /\ patch.ok
      THEN [major |-> major.val, minor |-> minor.val, patch |-> patch.val, err |-> Nil]
      ELSE [major |-> Int64(0), minor |-> Int64(0), patch |-> Int64(0),
            err |-> Errorf("invalid version: %s", version)]

parseVersionParts(version) ==
  LET dash  == IndexByte(version, "-")
      c1    == IF dash # -1 THEN Slice(version, 0, dash) ELSE version
      plus  == IndexByte(c1, "+")
      clean == IF plus # -1 THEN Slice(c1, 0, plus) ELSE c1
      parts == Split(clean, ".")
      major == Atoi(parts[1])
      minor == IF Len(parts) >= 2 THEN Atoi(parts[2]) ELSE [ok |-> TRUE, val |-> Int64(0)]
      patch == IF Len(parts) >= 3 THEN Atoi(parts[3]) ELSE [ok |-> TRUE, val |-> Int64(0)]
      bad(e) == [major |-> Int64(0), minor |-> Int64(0), patch |-> Int64(0), err |-> e]
  IN  IF ~major.ok THEN bad(Errorf("invalid major version: %s", parts[1]))
      ELSE IF ~minor.ok THEN bad(Errorf("invalid minor version: %s", parts[2]))
      ELSE IF ~patch.ok THEN bad(Errorf("invalid patch version: %s", parts[3]))
      ELSE [major |-> major.val, minor |-> minor.val, patch |-> patch.val, err |-> Nil]

\* REGEX_START + "(?:" + strings.Join(patterns, REGEX_OR) + ")" + suffix + REGEX_END
ComparisonPattern(patterns) ==
  REGEX_START \o <<"(", "?", ":">> \o Join(patterns, REGEX_OR) \o <<")">>
    \o VERSION_SUFFIX_PATTERN \o REGEX_END

\* The clause "major above" with the "+ 1" forgotten.
MajorAboveInclusive(major) ==
  NumGreaterOrEqual(major) \o VERSION_DOT \o VERSION_DIGITS \o VERSION_DOT \o VERSION_DIGITS

\* The clause "major above": NumGreaterOrEqual(major+1) \. \d+ \. \d+
MajorAbove(major) ==
  NumGreaterOrEqual(PlusOne(major)) \o VERSION_DOT \o VERSION_DIGITS \o VERSION_DOT \o VERSION_DIGITS

\* The clause "same major, minor above" with the "+ 1" forgotten.
MinorAboveInclusive(major, minor) ==
  FormatInt(major) \o VERSION_DOT \o NumGreaterOrEqual(minor) \o VERSION_DOT \o VERSION_DIGITS

\* The clause "same major, minor above".
MinorAbove(major, minor) ==
  FormatInt(major) \o VERSION_DOT \o NumGreaterOrEqual(PlusOne(minor)) \o VERSION_DOT \o VERSION_DIGITS

\* The clause "major below".
MajorBelow(major) ==
  NumLessOrEqual(MinusOne(major)) \o VERSION_DOT \o VERSION_DIGITS \o VERSION_DOT \o VERSION_DIGITS

\* The clause "same major, minor below".
MinorBelow(major, minor) ==
  FormatInt(major) \o VERSION_DOT \o NumLessOrEqual(MinusOne(minor)) \o VERSION_DOT \o VERSION_DIGITS

\* The clause "same major and minor", closed by the fragment for the patch.
PatchClause(major, minor, patchFragment) ==
  FormatInt(major) \o VERSION_DOT \o FormatInt(minor) \o VERSION_DOT \o patchFragment

\* The clauses greaterThanEqualRegex joins, in order.
greaterThanEqualClauses(v) ==
  << MajorAbove(v.major), MinorAbove(v.major, v.minor),
     PatchClause(v.major, v.minor, NumGreaterOrEqual(v.patch)) >>

greaterThanEqualRegex(version) ==
  LET v == parseVersionParts(version)
  IN  IF v.err # Nil THEN [pattern |-> <<>>, err |-> v.err]
      ELSE [pattern |-> ComparisonPattern(greaterThanEqualClauses(v)), err |-> Nil]

\* The clauses of lessThanEqualRegex without the guards major > 0, minor > 0.
lessThanEqualClausesUnguarded(v) ==
  << MajorBelow(v.major), MinorBelow(v.major, v.minor),
     PatchClause(v.major, v.minor, NumLessOrEqual(v.patch)) >>

\* The clauses lessThanEqualRegex joins, in order.
lessThanEqualClauses(v) ==
  (IF IsPositive(v.major) THEN <<MajorBelow(v.major)>> ELSE <<>>)
    \o (IF IsPositive(v.minor) THEN <<MinorBelow(v.major, v.minor)>> ELSE <<>>)
    \o <<PatchClause(v.major, v.minor, NumLessOrEqual(v.patch))>>

lessThanEqualRegex(version) ==
  LET v == parseVersionParts(version)
  IN  IF v.err # Nil THEN [pattern |-> <<>>, err |-> v.err]
      ELSE [pattern |-> ComparisonPattern(lessThanEqualClauses(v)), err |-> Nil]

\* The clauses of greaterThanRegex with the patch bound not raised by one.
greaterThanClausesInclusive(v) ==
  << MajorAbove(v.major), MinorAbove(v.major, v.minor),
     PatchClause(v.major, v.minor, NumGreaterOrEqual(v.patch)) >>

\* The clauses greaterThanRegex joins, in order.
greaterThanClauses(v) ==
  << MajorAbove(v.major), MinorAbove(v.major, v.minor),
     PatchClause(v.major, v.minor, NumGreaterOrEqual(PlusOne(v.patch))) >>

greaterThanRegex(version) ==
  LET v == parseVersionParts(version)
  IN  IF v.err # Nil THEN [pattern |-> <<>>, err |-> v.err]
      ELSE [pattern |-> ComparisonPattern(greaterThanClauses(v)), err |-> Nil]

\* The clauses of lessThanRegex with the patch clause kept when patch = 0 and
\* its bound not lowered by one.
lessThanClausesInclusive(v) ==
  (IF IsPositive(v.major) THEN <<MajorBelow(v.major)>> ELSE <<>>)
    \o (IF IsPositive(v.minor) THEN <<MinorBelow(v.major, v.minor)>> ELSE <<>>)
    \o <<PatchClause(v.major, v.minor, NumLessOrEqual(v.patch))>>

\* The clauses lessThanRegex joins, in order; possibly none.
lessThanClauses(v) ==
  (IF IsPositive(v.major) THEN <<MajorBelow(v.major)>> ELSE <<>>)
    \o (IF IsPositive(v.minor) THEN <<MinorBelow(v.major, v.minor)>> ELSE <<>>)
    \o (IF IsPositive(v.patch)
        THEN <<PatchClause(v.major, v.minor, NumLessOrEqual(MinusOne(v.patch)))>> ELSE <<>>)

\* lessThanRegex without its answer for an empty list of clauses.
lessThanRegexNoContradiction(version) ==
  IF parseVersionParts(version).err # Nil
  THEN [pattern |-> <<>>, err |-> parseVersionParts(version).err]
  ELSE [pattern |-> ComparisonPattern(lessThanClauses(parseVersionParts(version))),
        err |-> Nil]

lessThanRegex(version) ==
  LET v        == parseVersionParts(version)
      patterns == lessThanClauses(v)
  IN  IF v.err # Nil THEN [pattern |-> <<>>, err |-> v.err]
      ELSE IF Len(patterns) = 0 THEN [pattern |-> EMPTY_MATCH_PATTERN, err |-> Nil]
      ELSE [pattern |-> ComparisonPattern(patterns), err |-> Nil]

\* caretRangeRegex without its case for a zero major.
caretRangeRegexMajorOnly(version) ==
  IF parseVersionParts(version).err # Nil
  THEN [pattern |-> <<>>, err |-> parseVersionParts(version).err]
  ELSE [pattern |-> CARET_RANGE_TEMPLATE(parseVersionParts(version).major), err |-> Nil]

caretRangeRegex(version) ==
  LET v == parseVersionParts(version)
  IN  IF v.err # Nil THEN [pattern |-> <<>>, err |-> v.err]
      ELSE IF IsZero(v.major)
           THEN [pattern |-> CARET_RANGE_ZERO_MAJOR_TEMPLATE(v.minor), err |-> Nil]
      ELSE [pattern |-> CARET_RANGE_TEMPLATE(v.major), err |-> Nil]

\* tildeRangeRegex with the caret's pattern: the minor is fixed only under a
\* zero major.
tildeRangeRegexAsCaret(version) == caretRangeRegex(version)

tildeRangeRegex(version) ==
  LET v == parseVersionParts(version)
  IN  IF v.err # Nil THEN [pattern |-> <<>>, err |-> v.err]
      ELSE [pattern |-> TILDE_RANGE_TEMPLATE(v.major, v.minor), err |-> Nil]

compatibleReleaseRegex(version) == tildeRangeRegex(version)

(***************************************************************************)
(* Exact match and the ecosystem formatters                                *)
(***************************************************************************)

RECURSIVE QuotedDotted(_, _)
\* The parts from index i on, each through QuoteMeta, joined by VERSION_DOT.
QuotedDotted(parts, i) ==
  IF i > Len(parts) THEN <<>>
  ELSE (IF i > 1 THEN VERSION_DOT ELSE <<>>) \o QuoteMeta(parts[i]) \o QuotedDotted(parts, i + 1)

RECURSIVE convertWildcardParts(_)
convertWildcardParts(parts) ==
  IF Len(parts) = 0 THEN <<>>
  ELSE <<IF parts[1] = <<"*">> THEN VERSION_DIGITS ELSE QuoteMeta(parts[1])>>
         \o convertWildcardParts(Tail(parts))

RECURSIVE PadToThree(_)
PadToThree(patternParts) ==
  IF Len(patternParts) < 3 THEN PadToThree(Append(patternParts, VERSION_DIGITS))
  ELSE patternParts

\* padToSemanticVersion without the test of the last part.
padToSemanticVersionAlways(patternParts, originalParts) == PadToThree(patternParts)

padToSemanticVersion(patternParts, originalParts) ==
  IF Len(originalParts) = 0 THEN patternParts
  ELSE IF originalParts[Len(originalParts)] # <<"*">> THEN patternParts
  ELSE PadToThree(patternParts)

WildcardParts(parts) == padToSemanticVersion(convertWildcardParts(parts), parts)

wildcardToRegex(version) ==
  REGEX_START \o Join(WildcardParts(Split(version, ".")), VERSION_DOT)
    \o VERSION_SUFFIX_PATTERN \o REGEX_END

isGoModuleVersion(version) == HasPrefix(version, <<"v">>) /\ ByteLen(version) > 1

\* The test of goModuleVersionRegex for a pseudo-version v0.0.0-<14>-<12>:
\* the two lengths are numbers of bytes.
IsPseudoVersion(dashParts) ==
  /\ Len(dashParts) >= 3
  /\ dashParts[1] = <<"0", ".", "0", ".", "0">>
  /\ ByteLen(dashParts[2]) = 14
  /\ ByteLen(dashParts[3]) = 12

\* One dot-separated part of a Go module version: a part holding "-" carries
\* the pre-release, which may be continued by any text.
GoPart(preParts) ==
  IF Len(preParts) > 1
  THEN QuoteMeta(preParts[1]) \o <<"(", "?", ":", "-">>
         \o QuoteMeta(Join(Tail(preParts), <<"-">>)) \o <<".", "*", ")", "?">>
  ELSE QuoteMeta(preParts[1])

RECURSIVE GoParts(_, _)
GoParts(parts, i) ==
  IF i > Len(parts) THEN <<>>
  ELSE (IF i > 1 THEN VERSION_DOT ELSE <<>>) \o GoPart(Split(parts[i], "-"))
         \o GoParts(parts, i + 1)

\* version[1:] drops one byte; the caller has tested that the first
\* character is the one-byte "v" (isGoModuleVersion), so Tail drops the same.
goModuleVersionRegex(version) ==
  IF IsPseudoVersion(Split(Tail(version), "-"))
  THEN REGEX_START \o QuoteMeta(version) \o REGEX_END
  ELSE REGEX_START \o <<"v">> \o GoParts(Split(Tail(version), "."), 1)
         \o (IF IndexByte(Tail(version), "-") = -1 THEN PRE_RELEASE_PATTERN ELSE <<>>)
         \o REGEX_END

containsCSharpPreRelease(version) ==
  \/ Contains(version, <<"-", "a", "l", "p", "h", "a">>)
  \/ Contains(version, <<"-", "b", "e", "t", "a">>)
  \/ Contains(version, <<"-", "r", "c">>)
  \/ Contains(version, <<"-", "p", "r", "e", "v", "i", "e", "w">>)

isCSharpVersion(version) ==
  Len(Split(version, ".")) = 4 \/ containsCSharpPreRelease(version)

\* (?:-(?:alpha|beta|rc|preview)(?:\d+)?(?:\.\d+)?)?
CSharpPreReleasePattern ==
  <<"(", "?", ":", "-", "(", "?", ":", "a", "l", "p", "h", "a", "|", "b", "e", "t", "a", "|",
    "r", "c", "|", "p", "r", "e", "v", "i", "e", "w", ")",
    "(", "?", ":", "\\", "d", "+", ")", "?",
    "(", "?", ":", "\\", ".", "\\", "d", "+", ")", "?", ")", "?">>

\* csharpVersionRegex once the index of the first "-" (or -1) is known.
CSharpFrom(version, dash) ==
  IF dash # -1
  THEN REGEX_START \o QuotedDotted(Split(Slice(version, 0, dash), "."), 1)
         \o QuoteMeta(Slice(version, dash, Len(version))) \o REGEX_END
  ELSE REGEX_START \o QuotedDotted(Split(version, "."), 1) \o CSharpPreReleasePattern
         \o REGEX_END

csharpVersionRegex(version) == CSharpFrom(version, IndexByte(version, "-"))

\* The standard branch of exactMatchRegex once the text before the first
\* "+" (mainVersion) and the build metadata from it on are known.
StandardFrom(mainVersion, buildMeta, dash) ==
  REGEX_START
    \o QuotedDotted(Split(IF dash # -1 THEN Slice(mainVersion, 0, dash) ELSE mainVersion, "."), 1)
    \o (IF dash # -1 /\ dash < Len(mainVersion)
        THEN QuoteMeta(Slice(mainVersion, dash, Len(mainVersion))) ELSE PRE_RELEASE_PATTERN)
    \o (IF buildMeta # <<>> THEN QuoteMeta(buildMeta) ELSE BUILD_META_PATTERN)
    \o REGEX_END

StandardSplit(version, plus) ==
  IF plus # -1
  THEN StandardFrom(Slice(version, 0, plus), Slice(version, plus, Len(version)),
                    IndexByte(Slice(version, 0, plus), "-"))
  ELSE StandardFrom(version, <<>>, IndexByte(version, "-"))

\* exactMatchRegex with the test for a Go module version put first.
exactMatchRegexGoFirst(version) ==
  IF isGoModuleVersion(version) THEN goModuleVersionRegex(version)
  ELSE IF IndexByte(version, "*") # -1 THEN wildcardToRegex(version)
  ELSE IF isCSharpVersion(version) THEN csharpVersionRegex(version)
  ELSE StandardSplit(version, IndexByte(version, "+"))

exactMatchRegex(version) ==
  IF IndexByte(version, "*") # -1 THEN wildcardToRegex(version)
  ELSE IF isGoModuleVersion(version) THEN goModuleVersionRegex(version)
  ELSE IF isCSharpVersion(version) THEN csharpVersionRegex(version)
  ELSE StandardSplit(version, IndexByte(version, "+"))

\* strings.TrimPrefix(strings.TrimSuffix(p, REGEX_END), REGEX_START)
TrimAnchors(p) ==
  SubSeq(p, IF HasPrefix(IF HasSuffix(p, REGEX_END) THEN SubSeq(p, 1, Len(p) - 1) ELSE p,
                         REGEX_START) THEN 2 ELSE 1,
         IF HasSuffix(p, REGEX_END) THEN Len(p) - 1 ELSE Len(p))

notEqualRegex(version) ==
  [pattern |-> NOT_EQUAL_BASE_PATTERN(TrimAnchors(exactMatchRegex(version))), err |-> Nil]

(***************************************************************************)
(* Maven ranges                                                            *)
(***************************************************************************)

OP_GREATER_EQUAL == <<">", "=">>

OP_LESS_EQUAL == <<"<", "=">>

OP_NOT_EQUAL == <<"!", "=">>

OP_EQUAL_EQUAL == <<"=", "=">>

OP_PESSIMISTIC == <<"~", ">">>

OP_COMPATIBLE == <<"~", "=">>

OP_GREATER == <<">">>

OP_LESS == <<"<">>

OP_EQUAL == <<"=">>

OP_CARET == <<"^">>

OP_TILDE == <<"~">>

OP_MAVEN_RANGE == <<"m", "a", "v", "e", "n", "-", "r", "a", "n", "g", "e">>

NoConstraint == [Operator |-> <<>>, Version |-> <<>>]

\* parseMavenRange without the test of the two bracket characters.
parseMavenRangeAnyBrackets(versionStr) ==
  IF ByteLen(versionStr) < 3
  THEN [constraint |-> NoConstraint, err |-> Errorf("invalid Maven range format: %s", versionStr)]
  ELSE [constraint |-> [Operator |-> OP_MAVEN_RANGE,
                        Version |-> Slice(versionStr, 1, Len(versionStr) - 1)],
        err |-> Nil]

parseMavenRange(versionStr) ==
  IF ByteLen(versionStr) < 3
  THEN [constraint |-> NoConstraint, err |-> Errorf("invalid Maven range format: %s", versionStr)]
  ELSE IF versionStr[1] \notin {"[", "("} \/ versionStr[Len(versionStr)] \notin {"]", ")"}
       THEN [constraint |-> NoConstraint,
             err |-> Errorf("invalid Maven range brackets: %s", versionStr)]
  ELSE [constraint |-> [Operator |-> OP_MAVEN_RANGE,
                        Version |-> Slice(versionStr, 1, Len(versionStr) - 1)],
        err |-> Nil]

\* strconv.Atoi's value is kept and its error dropped: 0 for a text that is
\* no number, the nearest end of the range for a number outside it.
extractMajorVersion(version) == Atoi(Split(version, ".")[1]).val

\* fmt.Sprintf of "^" + major + `\.\d+\.\d+` + suffix + "$", major being text.
MavenMajorPattern(major) ==
  REGEX_START \o major \o VERSION_DOT \o VERSION_DIGITS \o VERSION_DOT \o VERSION_DIGITS
    \o VERSION_SUFFIX_PATTERN \o REGEX_END

MavenMajors(lowerMajor, upperMajor) ==
  IF lowerMajor = upperMajor THEN MavenMajorPattern(FormatInt(lowerMajor))
  ELSE MavenMajorPattern(<<"[">> \o FormatInt(lowerMajor) \o <<"-">> \o FormatInt(upperMajor)
                           \o <<"]">>)

mavenBothBoundsPattern(lowerBound, upperBound) ==
  MavenMajors(extractMajorVersion(lowerBound), extractMajorVersion(upperBound))

mavenLowerBoundPattern(lowerBound) ==
  MavenMajorPattern(<<"(", "?", ":", "[">> \o FormatInt(extractMajorVersion(lowerBound))
                      \o <<"-", "9", "]", "|", "\\", "d", "{", "2", ",", "}", ")">>)

mavenUpperBoundPattern(upperBound) ==
  IF IsPositive(extractMajorVersion(upperBound))
  THEN MavenMajorPattern(<<"[", "0", "-">> \o FormatInt(extractMajorVersion(upperBound))
                           \o <<"]">>)
  ELSE MavenMajorPattern(<<"0">>)

\* mavenRangeRegex once the range text is split on ",".
MavenFromParts(rangeStr, parts) ==
  IF Len(parts) # 2
  THEN [pattern |-> <<>>, err |-> Errorf("invalid Maven range format: %s", rangeStr)]
  ELSE IF TrimSpace(parts[1]) # <<>> /\ TrimSpace(parts[2]) # <<>>
       THEN [pattern |-> mavenBothBoundsPattern(TrimSpace(parts[1]), TrimSpace(parts[2])),
             err |-> Nil]
  ELSE IF TrimSpace(parts[1]) # <<>>
       THEN [pattern |-> mavenLowerBoundPattern(TrimSpace(parts[1])), err |-> Nil]
  ELSE IF TrimSpace(parts[2]) # <<>>
       THEN [pattern |-> mavenUpperBoundPattern(TrimSpace(parts[2])), err |-> Nil]
  ELSE [pattern |-> EXACT_VERSION_TEMPLATE, err |-> Nil]

mavenRangeRegex(rangeStr) == MavenFromParts(rangeStr, Split(rangeStr, ","))

(***************************************************************************)
(* The constraint parser and the dispatch on the operator                  *)
(***************************************************************************)

\* The operators with the one-character ones tried first.
operatorsShortFirst ==
  << OP_GREATER, OP_LESS, OP_EQUAL, OP_CARET, OP_TILDE,
     OP_GREATER_EQUAL, OP_LESS_EQUAL, OP_NOT_EQUAL, OP_EQUAL_EQUAL, OP_PESSIMISTIC,
     OP_COMPATIBLE >>

\* The operators with "=>" tried first, an operator constraintToRegex does
\* not know.
operatorsWithArrow ==
  << <<"=", ">">>, OP_GREATER_EQUAL, OP_LESS_EQUAL, OP_NOT_EQUAL, OP_EQUAL_EQUAL,
     OP_PESSIMISTIC, OP_COMPATIBLE, OP_GREATER, OP_LESS, OP_EQUAL, OP_CARET, OP_TILDE >>

\* The operators in the order parseVersionConstraint tries them.
operators ==
  << OP_GREATER_EQUAL, OP_LESS_EQUAL, OP_NOT_EQUAL, OP_EQUAL_EQUAL, OP_PESSIMISTIC,
     OP_COMPATIBLE, OP_GREATER, OP_LESS, OP_EQUAL, OP_CARET, OP_TILDE >>

RECURSIVE FirstOperator(_, _)
\* The loop over operators from index k on: the first that prefixes s.
FirstOperator(s, k) ==
  IF k > Len(operators)
  THEN [constraint |-> [Operator |-> OP_EQUAL_EQUAL, Version |-> s], err |-> Nil]
  ELSE IF HasPrefix(s, operators[k])
       THEN [constraint |-> [Operator |-> operators[k],
                             Version |-> TrimSpace(Slice(s, Len(operators[k]), Len(s)))],
             err |-> Nil]
  ELSE FirstOperator(s, k + 1)

\* parseVersionConstraint on the trimmed text.
ParseTrimmed(s) ==
  IF HasPrefix(s, <<"[">>) \/ HasPrefix(s, <<"(">>) THEN parseMavenRange(s)
  ELSE FirstOperator(s, 1)

parseVersionConstraint(versionStr) == ParseTrimmed(TrimSpace(versionStr))

\* constraintToRegex with every operator taken for an exact match.
constraintToRegexAlwaysExact(c) == [pattern |-> exactMatchRegex(c.Version), err |-> Nil]

constraintToRegex(c) ==
  IF c.Operator \in {OP_EQUAL_EQUAL, OP_EQUAL}
  THEN [pattern |-> exactMatchRegex(c.Version), err |-> Nil]
  ELSE IF c.Operator = OP_GREATER_EQUAL THEN greaterThanEqualRegex(c.Version)
  ELSE IF c.Operator = OP_LESS_EQUAL THEN lessThanEqualRegex(c.Version)
  ELSE IF c.Operator = OP_GREATER THEN greaterThanRegex(c.Version)
  ELSE IF c.Operator = OP_LESS THEN lessThanRegex(c.Version)
  ELSE IF c.Operator = OP_NOT_EQUAL THEN notEqualRegex(c.Version)
  ELSE IF c.Operator = OP_CARET THEN caretRangeRegex(c.Version)
  ELSE IF c.Operator \in {OP_TILDE, OP_PESSIMISTIC}
       THEN tildeRangeRegex(c.Version)
  ELSE IF c.Operator = OP_COMPATIBLE THEN compatibleReleaseRegex(c.Version)
  ELSE IF c.Operator = OP_MAVEN_RANGE THEN mavenRangeRegex(c.Version)
  ELSE [pattern |-> <<>>, err |-> Errorf("unsupported operator: %s", c.Operator)]

(***************************************************************************)
(* Numerals: candidates are decimal numerals, compared by value on their   *)
(* digits, so that a candidate may exceed the integers of the model.       *)
(***************************************************************************)

IsNumeral(x) ==
  /\ Len(x) >= 1
  /\ \A i \in 1..Len(x) : x[i] \in DigitChars
  /\ (Len(x) = 1 \/ x[1] # "0")

\* a < b by value, for numerals a and b.
NumeralLess(a, b) ==
  \/ Len(a) < Len(b)
  \/ /\ Len(a) = Len(b)
     /\ \E i \in 1..Len(a) :
          /\ Ord[a[i]] < Ord[b[i]]
          /\ \A j \in 1..(i - 1) : a[j] = b[j]

NumeralLeq(a, b) == a = b \/ NumeralLess(a, b)

\* The largest value the synthesizer is specified for: 9,999,999,999.
TenNines == <<"9", "9", "9", "9", "9", "9", "9", "9", "9", "9">>

InRange(x) == IsNumeral(x) /\ NumeralLeq(x, TenNines)

(***************************************************************************)
(* Specification SpecNum: one call of NumGreaterOrEqual or NumLessOrEqual  *)
(* and one anchored match of a candidate, as the package's tests do it.    *)
(***************************************************************************)

\* Every threshold 0..MaxN is tried.
MaxN == 40

\* Every negative threshold -1..-MaxNeg is tried.
MaxNeg == 3

\* Candidates n-Near..n+Near are tried around each threshold n.
Near == 2

PowersOfTen == {10, 100, 1000, 10000, 100000, 1000000, 10000000, 100000000, 1000000000}

\* Thresholds whose digits exercise each branch: nines and zeros inside, the
\* ten-digit cap.
MixedThresholds ==
  {109, 190, 199, 500, 909, 990, 4999, 12345, 90909, 1234567890, 1999999999, 2147483000}

SmallThresholds ==
  (0..MaxN) \cup PowersOfTen \cup {q - 1 : q \in PowersOfTen} \cup {q + 1 : q \in PowersOfTen}
    \cup MixedThresholds \cup {0 - k : k \in 1..MaxNeg}

\* The int that the digits d write.
Natural(d) == [neg |-> FALSE, mag |-> d]

\* Ten-digit thresholds from 2^31 to the top of the synthesizer's range, and
\* the two ends of int.
WideThresholds ==
  {Natural(<<2, 1, 4, 7, 4, 8, 3, 6, 4, 7>>), Natural(<<2, 1, 4, 7, 4, 8, 3, 6, 4, 8>>),
   Natural(<<3, 0, 0, 0, 0, 0, 0, 0, 0, 0>>), Natural(<<9, 0, 9, 0, 9, 0, 9, 0, 9, 0>>),
   Natural(<<9, 9, 9, 9, 9, 9, 9, 9, 9, 8>>), Natural(<<9, 9, 9, 9, 9, 9, 9, 9, 9, 9>>),
   MaxInt64, MinInt64}

NumThresholds == {Int64(n) : n \in SmallThresholds} \cup WideThresholds

NumCalls ==
  {[fn |-> f, n |-> n] : f \in {"NumGreaterOrEqual", "NumLessOrEqual"}, n \in NumThresholds}

RECURSIVE Upward(_, _)
\* n, n + 1, ..., n + k
Upward(n, k) == IF k = 0 THEN {n} ELSE {n} \cup Upward(PlusOne(n), k - 1)

RECURSIVE Downward(_, _)
\* n, n - 1, ..., n - k
Downward(n, k) == IF k = 0 THEN {n} ELSE {n} \cup Downward(MinusOne(n), k - 1)

\* Candidates tried with every threshold: the empty string, zero, the
\* neighbours of each power of ten, the ten-digit maximum, a leading zero.
FixedNumerals ==
  {<<>>, <<"0">>, <<"0", "7">>, TenNines}
    \cup {Itoa(q) : q \in PowersOfTen} \cup {Itoa(q - 1) : q \in PowersOfTen}

NumCandidates(n) ==
  FixedNumerals
    \cup {FormatInt(x) : x \in {y \in Upward(n, Near) \cup Downward(n, Near) : ~IsNegative(y)}}

InitNum ==
  /\ pc = "ready"
  /\ call \in NumCalls
  /\ cand \in NumCandidates(call.n)
  /\ constraint = NoConstraint
  /\ pattern = <<>>
  /\ regex = NoRegex
  /\ err = Nil
  /\ matched = FALSE
  /\ results = <<>>

CallNumGreaterOrEqual ==
  /\ pc = "ready"
  /\ call.fn = "NumGreaterOrEqual"
  /\ pattern' = NumGreaterOrEqual(call.n)
  /\ pc' = "generated"
  /\ UNCHANGED <<call, cand, constraint, regex, err, matched, results>>

CallNumLessOrEqual ==
  /\ pc = "ready"
  /\ call.fn = "NumLessOrEqual"
  /\ pattern' = NumLessOrEqual(call.n)
  /\ pc' = "generated"
  /\ UNCHANGED <<call, cand, constraint, regex, err, matched, results>>

\* regexp.Compile("^" + pattern + "$") and MatchString on the candidate; a
\* fragment that does not compile matches nothing.
MatchAnchored ==
  /\ pc = "generated"
  /\ regex' = Compile(<<"^">> \o pattern \o <<"$">>)
  /\ matched' = MatchAnchoredString(pattern, cand)
  /\ err' = IF regex'.ok THEN Nil ELSE Errorf("error parsing regexp: %s", pattern)
  /\ pc' = "done"
  /\ UNCHANGED <<call, cand, constraint, pattern, results>>

NextNum == CallNumGreaterOrEqual \/ CallNumLessOrEqual \/ MatchAnchored

SpecNum == InitNum /\ [][NextNum]_vars

\* The threshold is within the synthesizer's range 0..9,999,999,999.
InThresholdRange(n) == ~IsNegative(n) /\ InRange(FormatInt(n))

\* C1: for 0 <= n <= 9,999,999,999, the anchored fragment of NumGreaterOrEqual(n) matches a
\* numeral x without leading zeros, 0 <= x <= 9,999,999,999, iff x >= n.
C1_GreaterOrEqualMatchesIffGE ==
  (pc = "done" /\ call.fn = "NumGreaterOrEqual" /\ InThresholdRange(call.n) /\ InRange(cand))
    => (matched <=> NumeralLeq(FormatInt(call.n), cand))

\* C1 witness: at the power of ten 100 the candidate 99 has been tried and
\* was not matched.
C1_Witness ==
  /\ pc = "done" /\ call.fn = "NumGreaterOrEqual" /\ call.n = Int64(100)
  /\ cand = <<"9", "9">> /\ ~matched

\* C2: for 0 <= n <= 9,999,999,999, the anchored fragment of NumLessOrEqual(n) matches a
\* numeral x without leading zeros, 0 <= x <= 9,999,999,999, iff x <= n.
C2_LessOrEqualMatchesIffLE ==
  (pc = "done" /\ call.fn = "NumLessOrEqual" /\ InThresholdRange(call.n) /\ InRange(cand))
    => (matched <=> NumeralLeq(cand, FormatInt(call.n)))

\* C2 witness: at n = 99 the candidate 100 has been tried and was not matched.
C2_Witness ==
  /\ pc = "done" /\ call.fn = "NumLessOrEqual" /\ call.n = Int64(99)
  /\ cand = <<"1", "0", "0">> /\ ~matched

\* C8: for every negative n, NumLessOrEqual(n) returns EMPTY_MATCH_PATTERN (a
\* pattern, the function has no error result), and that fragment matches no
\* digit string, the empty string included: not as the lookahead it is
\* written as, and not through this package's regexp either.
C8_NegativeIsContradiction ==
  (pc # "ready" /\ call.fn = "NumLessOrEqual" /\ IsNegative(call.n))
    => /\ pattern = EMPTY_MATCH_PATTERN
       /\ ~PerlMatches(pattern, cand)
       /\ ~matched

\* C8 witness: NumLessOrEqual(-1) has been tried on the empty string.
C8_Witness ==
  /\ pc = "done" /\ call.fn = "NumLessOrEqual" /\ call.n = Int64(-1)
  /\ cand = <<>> /\ ~matched

(***************************************************************************)
(* VersionToRegex(call.text), step by step: it parses the constraint,      *)
(* converts it to a pattern and compiles the pattern; a step that fails    *)
(* ends the call with its wrapped error.  The caller then tries the        *)
(* compiled pattern on a candidate with MatchString, as VersionMatches     *)
(* does.                                                                   *)
(***************************************************************************)

\* The state after parseVersionConstraint returned r.
Parsed(r) ==
  /\ constraint' = r.constraint
  /\ err' = IF r.err = Nil THEN Nil
            ELSE Wrap("failed to parse version constraint: %w", r.err)
  /\ pc' = IF r.err = Nil THEN "parsed" ELSE "failed"

ParseConstraint ==
  /\ pc = "ready"
  /\ Parsed(parseVersionConstraint(call.text))
  /\ UNCHANGED <<call, cand, pattern, regex, matched, results>>

\* The state after constraintToRegex returned r.
Converted(r) ==
  /\ pattern' = r.pattern
  /\ err' = IF r.err = Nil THEN Nil ELSE Wrap("failed to convert to regex: %w", r.err)
  /\ pc' = IF r.err = Nil THEN "converted" ELSE "failed"

ConvertConstraint ==
  /\ pc = "parsed"
  /\ Converted(constraintToRegex(constraint))
  /\ UNCHANGED <<call, cand, constraint, regex, matched, results>>

CompileRegex ==
  /\ pc = "converted"
  /\ regex' = Compile(pattern)
  /\ err' = IF regex'.ok THEN Nil
            ELSE Wrap("failed to compile regex: %w", Errorf("error parsing regexp: %s", pattern))
  /\ pc' = IF regex'.ok THEN "compiled" ELSE "failed"
  /\ UNCHANGED <<call, cand, constraint, pattern, matched, results>>

\* regex.MatchString(x) for a candidate x of the set candidates.
MatchVersion(candidates) ==
  /\ pc = "compiled"
  /\ \E x \in candidates :
       /\ cand' = x
       /\ matched' = MatchString(regex.node, x)
  /\ pc' = "done"
  /\ UNCHANGED <<call, constraint, pattern, regex, err, results>>

\* No candidate has been tried yet.
NoCandidate == <<"<", "n", "o", "n", "e", ">">>

\* The state before VersionToRegex is called with the text of c.
Ready(c) ==
  /\ pc = "ready"
  /\ call = c
  /\ cand = NoCandidate
  /\ constraint = NoConstraint
  /\ pattern = <<>>
  /\ regex = NoRegex
  /\ err = Nil
  /\ matched = FALSE
  /\ results = <<>>

CompileFailed == pc = "failed" /\ err.msg = "failed to compile regex: %w"

(***************************************************************************)
(* Specification SpecCmp: the comparison operators on "M.m.p" literals,    *)
(* with candidates "X.Y.Z" around the literal.                             *)
(***************************************************************************)

\* Every component 0..MaxCmp is tried.
MaxCmp == 1

\* Components at which the digit count changes, and the largest component
\* whose successor has ten digits.
EdgeComponents == {9, 10, 99, 100, 999999999}

CmpComponents == (0..MaxCmp) \cup EdgeComponents

ComparisonOperators == {OP_GREATER_EQUAL, OP_LESS_EQUAL, OP_GREATER, OP_LESS}

Dotted(x, y, z) == x \o <<".">> \o y \o <<".">> \o z

\* The top of the synthesizer's range, 9,999,999,999, and the largest int.
WideComponents == {Natural(<<9, 9, 9, 9, 9, 9, 9, 9, 9, 9>>), MaxInt64}

\* Every triple of the components, and the triples with a wide component in
\* one place or in all three.
CmpTriples ==
  {<<Int64(M), Int64(m), Int64(p)>> :
     M \in CmpComponents, m \in CmpComponents, p \in CmpComponents}
    \cup UNION {{<<w, Int64(1), Int64(1)>>, <<Int64(1), w, Int64(1)>>, <<Int64(1), Int64(1), w>>,
                 <<w, w, w>>} : w \in WideComponents}

CmpCalls ==
  {[op |-> o, major |-> v[1], minor |-> v[2], patch |-> v[3],
    text |-> o \o Dotted(FormatInt(v[1]), FormatInt(v[2]), FormatInt(v[3]))] :
     o \in ComparisonOperators, v \in CmpTriples}

\* An eleven-digit numeral: beyond the synthesizer's ten digits.
ElevenDigits == <<"1", "0", "0", "0", "0", "0", "0", "0", "0", "0", "0">>

\* A twenty-digit numeral: longer than every int.
TwentyDigits == ElevenDigits \o <<"0", "0", "0", "0", "0", "0", "0", "0", "0">>

\* The numerals next to a component.
Around(v) == {Itoa(x) : x \in {y \in {v - 1, v, v + 1} : y >= 0}}

\* The numeral of the digits d.
Numeral(d) == [i \in 1..Len(d) |-> DigitChar(d[i])]

\* The numerals next to a component that is not negative, of any size: the
\* numeral above the largest int is among them.
Beside(n) ==
  {Numeral(n.mag), Numeral(MagUp(n.mag))}
    \cup (IF IsZero(n) THEN {} ELSE {Numeral(Significant(MagDown(n.mag)))})

CmpCandidates(c) ==
  {Dotted(x, y, z) : x \in Beside(c.major), y \in Beside(c.minor), z \in Beside(c.patch)}
    \cup {<<>>,
          Dotted(<<"1">>, <<"0">>, <<"0">>),
          Dotted(ElevenDigits, <<"0">>, <<"0">>),
          Dotted(FormatInt(c.major), ElevenDigits, <<"0">>),
          Dotted(FormatInt(c.major), FormatInt(c.minor), ElevenDigits),
          Dotted(FormatInt(c.major), FormatInt(c.minor), TwentyDigits)}

InitCmp == \E c \in CmpCalls : Ready(c)

MatchCmp == MatchVersion(CmpCandidates(call))

NextCmp == ParseConstraint \/ ConvertConstraint \/ CompileRegex \/ MatchCmp

SpecCmp == InitCmp /\ [][NextCmp]_vars

(***************************************************************************)
(* The comparison claims: the candidate's components against the literal's *)
(* in lexicographic order, by value.                                       *)
(***************************************************************************)

\* The literal's triple and the candidate's, as numerals.
Literal == <<Itoa(call.major), Itoa(call.minor), Itoa(call.patch)>>

\* The same for a call of SpecCmp, whose components are ints.
CmpLiteral == <<FormatInt(call.major), FormatInt(call.minor), FormatInt(call.patch)>>

Candidate == Split(cand, ".")

\* The candidate is "X.Y.Z" with numerals X, Y, Z.
IsTriple(x) == Len(Split(x, ".")) = 3 /\ \A i \in 1..3 : IsNumeral(Split(x, ".")[i])

TripleLess(a, b) ==
  \/ NumeralLess(a[1], b[1])
  \/ a[1] = b[1] /\ NumeralLess(a[2], b[2])
  \/ a[1] = b[1] /\ a[2] = b[2] /\ NumeralLess(a[3], b[3])

TripleLeq(a, b) == a = b \/ TripleLess(a, b)

\* The numeral x reaches the bound written b, as the fragment of
\* NumGreaterOrEqual accepts it: x >= b and, when b has ten digits or more,
\* x is not longer than b (from ten digits on there is no alternative for
\* numbers of more digits).
Reaches(x, b) == NumeralLeq(b, x) /\ (Len(b) < DigitCap \/ Len(x) = Len(b))

\* The number of digits of b + 1, for a numeral b.
SuccessorLen(b) == IF \A i \in 1..Len(b) : b[i] = "9" THEN Len(b) + 1 ELSE Len(b)

\* The numeral x reaches n + 1, for a component n of the literal: x > n and
\* x is not longer than a bound of ten digits or more; at the largest int
\* n + 1 is negative and every numeral reaches it.
Exceeds(x, n) ==
  \/ n = MaxInt64
  \/ /\ NumeralLess(FormatInt(n), x)
     /\ (SuccessorLen(FormatInt(n)) < DigitCap \/ Len(x) = SuccessorLen(FormatInt(n)))

\* The numeral x is longer than a bound of len digits that has ten digits or
\* more.
Outgrows(x, len) == len >= DigitCap /\ Len(x) > len

\* The number of clauses joined in the group that follows "^" in a compiled
\* comparison pattern: the pattern's one alternative is the concatenation of
\* "^", that group, the two suffix groups and "$".
Clauses(r) == Len(r.node.kids[1].kids[2].kids)

Count(b) == IF b THEN 1 ELSE 0

Tried3(op) == pc = "done" /\ call.op = op /\ IsTriple(cand)

\* C3 as stated, for candidates of any size: ">=M.m.p" matches "X.Y.Z" iff
\* (X, Y, Z) >= (M, m, p) in lexicographic order.
C3_AnyCandidate ==
  Tried3(OP_GREATER_EQUAL) => (matched <=> TripleLeq(CmpLiteral, Candidate))

\* The candidate outgrows none of the bounds M + 1, m + 1 and p (p + 1 when
\* strict) it is compared with, and M + 1 and m + 1 (and p + 1 when strict)
\* are within the range of int.
PlainBounds(strict) ==
  /\ call.major # MaxInt64 /\ call.minor # MaxInt64
  /\ strict => call.patch # MaxInt64
  /\ ~Outgrows(Candidate[1], SuccessorLen(CmpLiteral[1]))
  /\ ~Outgrows(Candidate[2], SuccessorLen(CmpLiteral[2]))
  /\ ~Outgrows(Candidate[3], IF strict THEN SuccessorLen(CmpLiteral[3]) ELSE Len(CmpLiteral[3]))

\* C3: ">=M.m.p" matches "X.Y.Z" iff X reaches M + 1, or X = M and Y reaches
\* m + 1, or X = M and Y = m and Z reaches p, where a component reaches a
\* bound when it is at least the bound and not longer than a bound of ten
\* digits or more, and every component reaches M + 1 (m + 1) when M (m) is
\* the largest int, 2^63 - 1.  So the pattern matches iff
\* (X, Y, Z) >= (M, m, p) in lexicographic order whenever M and m are below
\* the largest int and no component of the candidate is longer than a bound
\* of ten digits or more; also when the components differ in their digit
\* counts.  The call does not fail.
C3_GreaterEqualIsLexicographic ==
  /\ Tried3(OP_GREATER_EQUAL) =>
       (matched <=>
          \/ Exceeds(Candidate[1], call.major)
          \/ Candidate[1] = CmpLiteral[1] /\ Exceeds(Candidate[2], call.minor)
          \/ /\ Candidate[1] = CmpLiteral[1] /\ Candidate[2] = CmpLiteral[2]
             /\ Reaches(Candidate[3], CmpLiteral[3]))
  /\ (Tried3(OP_GREATER_EQUAL) /\ PlainBounds(FALSE))
       => (matched <=> TripleLeq(CmpLiteral, Candidate))
  /\ call.op = OP_GREATER_EQUAL => pc # "failed"

\* C3 witness: ">=9.9.9" has matched "10.8.8", a longer major with smaller
\* minor and patch.
C3_Witness ==
  /\ pc = "done" /\ call.op = OP_GREATER_EQUAL
  /\ call.major = Int64(9) /\ call.minor = Int64(9) /\ call.patch = Int64(9)
  /\ cand = <<"1", "0", ".", "8", ".", "8">> /\ matched

\* C4: "<=M.m.p" matches "X.Y.Z" iff (X, Y, Z) <= (M, m, p) in lexicographic
\* order; the pattern has the major clause only when M > 0, the minor clause
\* only when m > 0, and always the final clause; the call does not fail.
C4_LessEqualIsLexicographic ==
  /\ Tried3(OP_LESS_EQUAL) => (matched <=> TripleLeq(Candidate, CmpLiteral))
  /\ (pc \in {"compiled", "done"} /\ call.op = OP_LESS_EQUAL)
       => Clauses(regex) = Count(IsPositive(call.major)) + Count(IsPositive(call.minor)) + 1
  /\ call.op = OP_LESS_EQUAL => pc # "failed"

\* C4 witness: "<=0.10.0" (no major clause) has refused "0.10.1".
C4_Witness ==
  /\ pc = "done" /\ call.op = OP_LESS_EQUAL
  /\ call.major = Int64(0) /\ call.minor = Int64(10) /\ call.patch = Int64(0)
  /\ cand = <<"0", ".", "1", "0", ".", "1">> /\ ~matched

\* C5 as stated, for candidates of any size: ">M.m.p" matches "X.Y.Z" iff
\* (X, Y, Z) > (M, m, p) in lexicographic order.
C5_AnyCandidate ==
  Tried3(OP_GREATER) => (matched <=> TripleLess(CmpLiteral, Candidate))

\* C5: ">M.m.p" matches "X.Y.Z" iff X reaches M + 1, or X = M and Y reaches
\* m + 1, or X = M and Y = m and Z reaches p + 1 (the last clause asks
\* Z >= p + 1), where a component reaches a bound when it is at least the
\* bound and not longer than a bound of ten digits or more, and every
\* component reaches the bound above the largest int, 2^63 - 1.  So the
\* pattern matches iff (X, Y, Z) > (M, m, p) in lexicographic order, and
\* never matches M.m.p itself, whenever M, m and p are below the largest int
\* and no component of the candidate is longer than a bound of ten digits
\* or more.  The call does not fail.
C5_GreaterIsLexicographic ==
  /\ Tried3(OP_GREATER) =>
       (matched <=>
          \/ Exceeds(Candidate[1], call.major)
          \/ Candidate[1] = CmpLiteral[1] /\ Exceeds(Candidate[2], call.minor)
          \/ /\ Candidate[1] = CmpLiteral[1] /\ Candidate[2] = CmpLiteral[2]
             /\ Exceeds(Candidate[3], call.patch))
  /\ (Tried3(OP_GREATER) /\ PlainBounds(TRUE))
       => (matched <=> TripleLess(CmpLiteral, Candidate))
  /\ call.op = OP_GREATER => pc # "failed"

\* C5 witness: ">1.9.99" has refused "1.9.99" itself.
C5_Witness ==
  /\ pc = "done" /\ call.op = OP_GREATER
  /\ call.major = Int64(1) /\ call.minor = Int64(9) /\ call.patch = Int64(99)
  /\ cand = <<"1", ".", "9", ".", "9", "9">> /\ ~matched

NotZero == ~IsZero(call.major) \/ ~IsZero(call.minor) \/ ~IsZero(call.patch)

\* C6: for (M, m, p) # (0, 0, 0), "<M.m.p" matches "X.Y.Z" iff
\* (X, Y, Z) < (M, m, p) in lexicographic order; the final clause is left out
\* when p = 0, as the major and minor clauses are when M = 0, m = 0; the
\* call does not fail.
C6_LessIsLexicographic ==
  /\ (Tried3(OP_LESS) /\ NotZero) => (matched <=> TripleLess(Candidate, CmpLiteral))
  /\ (pc \in {"compiled", "done"} /\ call.op = OP_LESS /\ NotZero)
       => Clauses(regex)
            = Count(IsPositive(call.major)) + Count(IsPositive(call.minor)) + Count(IsPositive(call.patch))
  /\ (call.op = OP_LESS /\ NotZero) => pc # "failed"

\* C6 witness: "<1.10.0" (no final clause) has refused "1.10.0" itself.
C6_Witness ==
  /\ pc = "done" /\ call.op = OP_LESS
  /\ call.major = Int64(1) /\ call.minor = Int64(10) /\ call.patch = Int64(0)
  /\ cand = <<"1", ".", "1", "0", ".", "0">> /\ ~matched

\* C7: lessThanRegex("0.0.0") returns EMPTY_MATCH_PATTERN and no error; that
\* pattern matches no candidate, not "0.0.0", not "0.0.1", not the empty
\* string: not with the lookahead it is written with, and this package's
\* regexp never compiles it, so nothing is ever matched through it.
C7_LessThanZeroMatchesNothing ==
  (call.op = OP_LESS /\ ~NotZero)
    => /\ pc = "converted" => pattern = EMPTY_MATCH_PATTERN /\ err = Nil
       /\ pc \notin {"ready", "parsed"}
            => \A x \in CmpCandidates(call) : ~PerlMatches(pattern, x)
       /\ pc # "done" /\ ~matched

\* C7 witness: lessThanRegex("0.0.0") has returned the contradiction pattern.
C7_Witness ==
  /\ pc = "converted" /\ call.op = OP_LESS /\ ~NotZero
  /\ pattern = EMPTY_MATCH_PATTERN /\ err = Nil
  /\ {<<>>, <<"0", ".", "0", ".", "0">>, <<"0", ".", "0", ".", "1">>} \subseteq CmpCandidates(call)

(***************************************************************************)
(* Specification SpecRange: the caret and tilde operators on "M.m.p"       *)
(* literals, with candidates "X.Y.Z" around the literal, bare and with     *)
(* suffixes.                                                               *)
(***************************************************************************)

\* Every component 0..MaxRange is tried.
MaxRange == 2

RangeComponents == (0..MaxRange) \cup {10}

TildeOperators == {OP_TILDE, OP_PESSIMISTIC, OP_COMPATIBLE}

RangeOperators == {OP_CARET} \cup TildeOperators

RangeCalls ==
  {[op |-> o, major |-> M, minor |-> m, patch |-> p,
    text |-> o \o Dotted(Itoa(M), Itoa(m), Itoa(p))] :
     o \in RangeOperators, M \in RangeComponents, m \in RangeComponents,
     p \in RangeComponents}

\* Nothing, a pre-release tag, build metadata, both.
Suffixes ==
  {<<>>,
   <<"-", "a", "l", "p", "h", "a", ".", "1">>,
   <<"+", "b", "u", "i", "l", "d", ".", "5">>,
   <<"-", "r", "c", ".", "1", "+", "b", "5">>}

\* The numerals next to a component, and one that only starts like it.
AroundOrLonger(v) == Around(v) \cup {Itoa(10 * v + 1)}

RangeCandidates(c) ==
  {Dotted(x, y, z) \o sfx :
     x \in AroundOrLonger(c.major), y \in AroundOrLonger(c.minor), z \in Around(c.patch),
     sfx \in Suffixes}
    \cup {<<>>}

InitRange == \E c \in RangeCalls : Ready(c)

MatchRange == MatchVersion(RangeCandidates(call))

NextRange == ParseConstraint \/ ConvertConstraint \/ CompileRegex \/ MatchRange

SpecRange == InitRange /\ [][NextRange]_vars

\* The candidate up to its first "-" or "+": what stands before the suffix.
BeforeByte(x, c) == IF IndexByte(x, c) = -1 THEN x ELSE Slice(x, 0, IndexByte(x, c))

Core(x) == BeforeByte(BeforeByte(x, "-"), "+")

CoreParts == Split(Core(cand), ".")

\* C10: "^M.m.p" matches a candidate "X.Y.Z", bare or followed by a
\* pre-release or build suffix, iff X = M when M > 0, and iff X = 0 and
\* Y = m when M = 0; minor and patch (for M = 0: patch) are free.  The call
\* does not fail.
C10_CaretFixesLeftmostNonZero ==
  /\ (pc = "done" /\ call.op = OP_CARET /\ IsTriple(Core(cand)))
       => (matched <=> IF call.major > 0 THEN CoreParts[1] = Itoa(call.major)
                       ELSE CoreParts[1] = <<"0">> /\ CoreParts[2] = Itoa(call.minor))
  /\ call.op = OP_CARET => pc # "failed"

\* C10 witness: "^0.2.1" has refused "0.3.0".
C10_Witness ==
  /\ pc = "done" /\ call.op = OP_CARET
  /\ call.major = 0 /\ call.minor = 2 /\ call.patch = 1
  /\ cand = <<"0", ".", "3", ".", "0">> /\ ~matched

\* The one pattern of a tilde constraint on M.m.p: M and m written out, any
\* patch, the optional suffixes.
TildePattern ==
  REGEX_START \o Itoa(call.major) \o VERSION_DOT \o Itoa(call.minor) \o VERSION_DOT
    \o VERSION_DIGITS \o VERSION_SUFFIX_PATTERN \o REGEX_END

\* C11: "~", "~>" and "~=" before M.m.p all give the same pattern, which
\* matches a candidate "X.Y.Z", bare or followed by a pre-release or build
\* suffix, iff X = M and Y = m; the patch is free.  The call does not fail.
C11_TildeAndAliasesFixMinor ==
  call.op \in TildeOperators =>
    /\ pc # "failed"
    /\ pc \in {"converted", "compiled", "done"} => pattern = TildePattern
    /\ (pc = "done" /\ IsTriple(Core(cand)))
         => (matched <=> CoreParts[1] = Itoa(call.major) /\ CoreParts[2] = Itoa(call.minor))

\* C11 witness: "~=1.2.1" has matched "1.2.0", a patch below the literal's.
C11_Witness ==
  /\ pc = "done" /\ call.op = OP_COMPATIBLE
  /\ call.major = 1 /\ call.minor = 2 /\ call.patch = 1
  /\ cand = <<"1", ".", "2", ".", "0">> /\ matched

\* The exclusive upper bound of a range on M.m.p: (M+1).0.0 for a caret with
\* M > 0, and M.(m+1).0 for a caret with M = 0 and for a tilde.
UpperBound ==
  IF call.op = OP_CARET /\ call.major > 0
  THEN <<Itoa(call.major + 1), <<"0">>, <<"0">>>>
  ELSE <<Itoa(call.major), Itoa(call.minor + 1), <<"0">>>>

\* C12: "^M.m.p" and "~M.m.p" match "X.Y.Z" exactly when M.m.p <= X.Y.Z and
\* X.Y.Z is below the upper bound; no version lower than the literal matches.
C12_BaseIsInclusiveLowerBound ==
  (pc = "done" /\ call.op \in {OP_CARET, OP_TILDE} /\ IsTriple(cand))
    => (matched <=> TripleLeq(Literal, Candidate) /\ TripleLess(Candidate, UpperBound))

(***************************************************************************)
(* Specification SpecExact: exact constraints (no operator, "==", "=") on  *)
(* "M.m.p" literals, bare or with a suffix, with candidates around the     *)
(* literal that carry suffixes of every shape.                             *)
(***************************************************************************)

\* Every component 0..MaxExact is tried.
MaxExact == 0

ExactComponents == (0..MaxExact) \cup {10}

ExactOperators == {<<>>, OP_EQUAL_EQUAL, OP_EQUAL}

\* No suffix, a pre-release tag, one of the C# formatter's tags, a tag with
\* build metadata, build metadata alone.
LiteralSuffixes ==
  {<<>>,
   <<"-", "d", "e", "v">>,
   <<"-", "r", "c">>,
   <<"-", "d", "e", "v", "+", "b", ".", "1">>,
   <<"+", "b", ".", "1">>}

ExactCalls ==
  {[op |-> o, major |-> M, minor |-> m, patch |-> p, suffix |-> sfx,
    version |-> Dotted(Itoa(M), Itoa(m), Itoa(p)) \o sfx,
    text |-> o \o Dotted(Itoa(M), Itoa(m), Itoa(p)) \o sfx] :
     o \in ExactOperators, M \in ExactComponents, m \in ExactComponents,
     p \in ExactComponents, sfx \in LiteralSuffixes}

\* Suffixes of a candidate: the literals' own, ones that extend or shorten
\* them, other tags, and texts that are no tag at all.
CandidateSuffixes ==
  LiteralSuffixes \cup
  {<<"-", "d", "e", "v", ".", "1">>,
   <<"-", "d", "e">>,
   <<"-", "r", "c", ".", "1">>,
   <<"-", "d", "e", "v", "+", "b", ".", "2">>,
   <<"-", "r", "c", "+", "b", ".", "1">>,
   <<"+", "b", ".", "2">>,
   <<"+", "b", "-", "1">>,
   <<"+", "b", ".", "1", "+", "c">>,
   <<"-", "a", "_", "b">>,
   <<"-">>,
   <<"+">>,
   <<" ">>}

\* The text with every "." replaced by the character c.
Undotted(x, c) == [i \in 1..Len(x) |-> IF x[i] = "." THEN c ELSE x[i]]

ExactCandidates(c) ==
  {Dotted(x, y, z) : x \in Around(c.major), y \in Around(c.minor), z \in AroundOrLonger(c.patch)}
    \cup {Dotted(Itoa(c.major), Itoa(c.minor), z) \o sfx :
            z \in {Itoa(c.patch), Itoa(c.patch + 1)}, sfx \in CandidateSuffixes}
    \cup {Undotted(c.version, "a"), <<"1">> \o c.version, <<>>}

InitExact == \E c \in ExactCalls : Ready(c)

MatchExact == MatchVersion(ExactCandidates(call))

NextExact == ParseConstraint \/ ConvertConstraint \/ CompileRegex \/ MatchExact

SpecExact == InitExact /\ [][NextExact]_vars

\* The characters of a pre-release or build tag.
TagChars == LetterChars \cup DigitChars \cup {"-", "."}

\* x is the character lead followed by one or more tag characters.
IsTag(x, lead) ==
  Len(x) >= 2 /\ x[1] = lead /\ \A i \in 2..Len(x) : x[i] \in TagChars

\* x is nothing, a pre-release tag, a build tag, or the one after the other.
IsOptionalSuffix(x) ==
  \/ x = <<>>
  \/ IsTag(x, "-")
  \/ IsTag(x, "+")
  \/ \E k \in 1..Len(x) : IsTag(SubSeq(x, 1, k), "-") /\ IsTag(SubSeq(x, k + 1, Len(x)), "+")

\* The candidate after the first Len(call.version) characters.
AfterLiteral == SubSeq(cand, Len(call.version) + 1, Len(cand))

\* C13: an exact constraint on a plain triple M.m.p matches a candidate iff
\* the candidate is "M.m.p", optionally followed by a pre-release tag ("-"
\* and one or more letters, digits, "-" or ".") and optionally by a build tag
\* ("+" and the same); a different major, minor or patch never matches.  The
\* call does not fail.
C13_ExactMatchesTripleWithOptionalTags ==
  call.suffix = <<>> =>
    /\ pc # "failed"
    /\ pc = "done"
         => (matched <=> HasPrefix(cand, call.version) /\ IsOptionalSuffix(AfterLiteral))

\* C13 witness: "==10.0.10" has refused "10.0.101", which only starts like it.
C13_Witness ==
  /\ pc = "done" /\ call.op = OP_EQUAL_EQUAL /\ call.suffix = <<>>
  /\ call.major = 10 /\ call.minor = 0 /\ call.patch = 10
  /\ cand = <<"1", "0", ".", "0", ".", "1", "0", "1">> /\ ~matched

\* The candidate from its first "-" or "+" on: what follows the triple.
AfterTriple(x) == SubSeq(x, Len(Core(x)) + 1, Len(x))

\* C14: an exact constraint whose literal carries a pre-release suffix
\* matches the literal itself, and matches no candidate whose text after
\* the triple differs from the literal's suffix.
C14_ExplicitSuffixOnly ==
  (pc = "done" /\ HasPrefix(call.suffix, <<"-">>))
    => /\ cand = call.version => matched
       /\ matched => AfterTriple(cand) = call.suffix

(***************************************************************************)
(* Specification SpecAny: VersionToRegex on constraints of every shape:    *)
(* each operator, and no operator, before literals of every ecosystem and  *)
(* malformed ones; Maven ranges, well-formed and not.                      *)
(***************************************************************************)

AnyOperators == {operators[k] : k \in 1..Len(operators)} \cup {<<>>}

AnyLiterals ==
  {<<"1", ".", "2", ".", "3">>,
   <<"0", ".", "0", ".", "0">>,
   <<"0", ".", "0", ".", "1">>,
   <<"0", ".", "1", ".", "0">>,
   <<"1", ".", "0", ".", "0">>,
   <<"1", ".", "2">>,
   <<"1">>,
   <<"1", "0", ".", "2", "0", ".", "3", "0">>,
   <<"1", ".", "2", ".", "3", "-", "a", "l", "p", "h", "a">>,
   <<"1", ".", "2", ".", "3", "+", "b", "u", "i", "l", "d">>,
   <<"1", ".", "2", ".", "3", "-", "r", "c", ".", "1", "+", "b", "5">>,
   <<"1", ".", "*">>,
   <<"1", ".", "2", ".", "*">>,
   <<"*">>,
   <<"v", "1", ".", "2", ".", "3">>,
   <<"v", "1", ".", "2", ".", "3", "-", "b", "e", "t", "a">>,
   <<"1", ".", "2", ".", "3", ".", "4">>,
   <<"2", ".", "0", ".", "0", "-", "p", "r", "e", "v", "i", "e", "w">>,
   <<"1", ".", "x", ".", "3">>,
   <<"a", ".", "b", ".", "c">>,
   <<"1", ".", ".", "3">>,
   <<"1", ".", "2", ".", "x">>,
   <<"1", ".", "2", ".", "3", ".", "x">>,
   <<"0", "1", ".", "2", ".", "3">>,
   <<"9", "2", "2", "3", "3", "7", "2", "0", "3", "6", "8", "5", "4", "7", "7", "5", "8", "0", "7", ".", "2", ".", "3">>,
   <<"9", "2", "2", "3", "3", "7", "2", "0", "3", "6", "8", "5", "4", "7", "7", "5", "8", "0", "8", ".", "2", ".", "3">>,
   <<"1", ".", "9", "9", "9", "9", "9", "9", "9", "9", "9", "9", "9", "9", "9", "9", "9", "9", "9", "9", "9", "9", ".", "x">>,
   <<>>}

MavenTexts ==
  {<<"[", "1", ".", "0", ",", "2", ".", "0", "]">>,
   <<"[", "1", ".", "0", ",", "2", ".", "0", ")">>,
   <<"(", "1", ".", "0", ",", "2", ".", "0", ")">>,
   <<"[", "1", ".", "0", ",", "1", ".", "5", "]">>,
   <<"[", "1", ".", "0", ",", ")">>,
   <<"(", ",", "2", ".", "0", "]">>,
   <<"(", ",", "0", ".", "9", "]">>,
   <<"(", ",", ")">>,
   <<"[", "3", ".", "0", ",", "1", ".", "0", "]">>,
   <<"[", "1", "2", ".", "0", ",", "5", ".", "0", "]">>,
   <<"[", "1", ".", "0", "]">>,
   <<"[", "1", ".", "0", ",", "2", ".", "0", ",", "3", ".", "0", "]">>,
   <<"[", "1", ".", "0", ",", "2", ".", "0">>,
   <<"[">>,
   <<" ", "[", "2", ".", "0", ",", " ", "3", ".", "0", "]", " ">>,
   <<"[", "x", ",", "y", "]">>,
   <<"[", "1", ".", "0", ",", "2", ".", "0", "}">>,
   <<"(", "1", ".", "0", ";", "2", ".", "0", ")">>,
   <<"[", ",", "]">>,
   <<"(", "1", ")">>,
   <<"(", "]">>,
   <<"[", "é">>,
   <<"[", "9", "9", "9", "9", "9", "9", "9", "9", "9", "9", "9", "9", "9", "9", "9", "9", "9", "9", "9", "9", ".", "0", ",", ")">>,
   <<"(", ",", "9", "2", "2", "3", "3", "7", "2", "0", "3", "6", "8", "5", "4", "7", "7", "5", "8", "0", "8", ".", "0", "]">>,
   <<"[", "9", "9", "9", "9", "9", "9", "9", "9", "9", "9", "9", "9", "9", "9", "9", "9", "9", "9", "9", "9", "x", ".", "0", ",", ")">>,
   <<"(", ",", "9", "2", "2", "3", "3", "7", "2", "0", "3", "6", "8", "5", "4", "7", "7", "5", "8", "0", "8", "x", ".", "0", "]">>,
   <<"[", "1", ".", "0", ",", "2", ".", "0", "]", " ">>}

\* Texts for the parser: operator characters in a row, white space of
\* every kind (the first two hold U+1680 and U+3000, the next four \v, NEL
\* and NBSP, written as themselves), nothing but an operator, nothing at all.
ParserTexts ==
  {<<">", "=", "<U+1680>", "1", ".", "2", ".", "3">>,
   <<"<U+3000>", "[", "1", ".", "0", ",", "2", ".", "0", "]", "<U+2003>">>,
   <<"", "1", ".", "2", ".", "3">>,
   <<">", "=", "", "1", ".", "2", ".", "3", "">>,
   <<" ", "^", "1", ".", "2", ".", "3", "">>,
   <<"", "[", "1", ".", "0", ",", "2", ".", "0", "]", " ">>,
   <<">", "=", "=", "1", ".", "2", ".", "3">>,
   <<"=", ">", "1", ".", "2", ".", "3">>,
   <<"~", ">", "=", "1", ".", "2", ".", "3">>,
   <<"=", "~", "1", ".", "2", ".", "3">>,
   <<"<", ">", "1", ".", "2", ".", "3">>,
   <<"!", "1", ".", "2", ".", "3">>,
   <<"^", "~", "1", ".", "2", ".", "3">>,
   <<">", " ", "=", "1", ".", "2", ".", "3">>,
   <<"\t", ">", "=", "\t", "1", ".", "2", ".", "3", "\n">>,
   <<"\r", "\n", "1", ".", "2", ".", "3", "\f">>,
   <<"1", ".", "2", ".", "3", ">", "=">>,
   <<"1", ".", "2", " ", ".", "3">>,
   <<"~", ">">>,
   <<"~">>,
   <<" ", " ">>,
   <<" ", "(">>,
   <<"\t", "[", "1", ".", "0", ",", "2", ".", "0", "]">>}

\* An operator and a literal, written together or with blanks around.
AnyTexts ==
  {o \o l : o \in AnyOperators, l \in AnyLiterals}
    \cup {<<" ">> \o o \o <<" ">> \o l \o <<" ">> : o \in AnyOperators, l \in {<<"1", ".", "2", ".", "3">>}}
    \cup MavenTexts
    \cup ParserTexts

AnyCalls == {[text |-> t] : t \in AnyTexts}

AnyCandidates ==
  {<<"1", ".", "2", ".", "3">>,
   <<"0", ".", "0", ".", "0">>,
   <<"0", ".", "0", ".", "1">>,
   <<"1", ".", "2", ".", "0">>,
   <<"1", ".", "2", ".", "4">>,
   <<"1", ".", "3", ".", "0">>,
   <<"2", ".", "0", ".", "0">>,
   <<"0", ".", "9", ".", "9">>,
   <<"1", ".", "2", ".", "3", "-", "a", "l", "p", "h", "a">>,
   <<"1", ".", "2", ".", "3", "+", "b", "u", "i", "l", "d">>,
   <<"v", "1", ".", "2", ".", "3">>,
   <<"1", ".", "2", ".", "3", ".", "4">>,
   <<"1", ".", "2">>,
   <<>>}

InitAny == \E c \in AnyCalls : Ready(c)

MatchAny == MatchVersion(AnyCandidates)

NextAny == ParseConstraint \/ ConvertConstraint \/ CompileRegex \/ MatchAny

SpecAny == InitAny /\ [][NextAny]_vars

\* C9: for every operator except not-equal and every literal that is
\* accepted without a parse error, the generated pattern compiles:
\* VersionToRegex never returns a "failed to compile regex" error.
C9_NeverFailsToCompile ==
  (pc = "failed" /\ constraint.Operator # OP_NOT_EQUAL) => ~CompileFailed

\* The call ended in parseVersionConstraint's error.
ParseFailed == pc = "failed" /\ err.msg = "failed to parse version constraint: %w"

\* The operators of which s has one as a prefix.
PrefixOperators(s) == {o \in {operators[k] : k \in 1..Len(operators)} : HasPrefix(s, o)}

\* The longest of a non-empty set of operators that are prefixes of one text.
Longest(P) == CHOOSE o \in P : \A q \in P : Len(q) <= Len(o)

\* What the parser is to return for the trimmed text s: the longest operator
\* that is a prefix and the trimmed remainder, or "==" and s; no error.
ParsedByOperator(s) ==
  /\ ~ParseFailed
  /\ IF PrefixOperators(s) = {}
     THEN constraint = [Operator |-> OP_EQUAL_EQUAL, Version |-> s]
     ELSE /\ constraint.Operator = Longest(PrefixOperators(s))
          /\ constraint.Version =
               TrimSpace(SubSeq(s, Len(constraint.Operator) + 1, Len(s)))

StartsRange(s) == HasPrefix(s, <<"[">>) \/ HasPrefix(s, <<"(">>)

\* C15 as stated, for every input that itself does not start with "[" or "(".
C15_InputNotStartingRange ==
  (pc # "ready" /\ ~StartsRange(call.text)) => ParsedByOperator(TrimSpace(call.text))

\* C15: for every input whose trimmed text does not start with "[" or "(",
\* parseVersionConstraint returns the longest operator that is a prefix of
\* the trimmed text and the remainder with its white space trimmed, or "=="
\* and the whole trimmed text when no operator is a prefix, and no error.
C15_LongestOperatorPrefix ==
  (pc # "ready" /\ ~StartsRange(TrimSpace(call.text)))
    => ParsedByOperator(TrimSpace(call.text))

\* C15 witness: " ~> 1.2.3 " has been parsed as "~>" and "1.2.3".
C15_Witness ==
  /\ pc = "parsed"
  /\ call.text = <<" ", "~", ">", " ", "1", ".", "2", ".", "3", " ">>
  /\ constraint = [Operator |-> OP_PESSIMISTIC, Version |-> <<"1", ".", "2", ".", "3">>]

\* The operators whose builders read the literal with parseVersionParts.
NumericOperators == ComparisonOperators \cup {OP_CARET} \cup TildeOperators

\* A literal's components: the text before any "-" or "+", split on ".".
PartsOf(v) == Split(Core(v), ".")

VersionParts == PartsOf(constraint.Version)

\* x is one or more decimal digits.
IsDigits(x) == Len(x) >= 1 /\ \A i \in 1..Len(x) : x[i] \in DigitChars

RECURSIVE Unpadded(_)
\* The digits x without their leading zeros.
Unpadded(x) == IF Len(x) > 1 /\ x[1] = "0" THEN Unpadded(Tail(x)) ELSE x

\* The numeral of the largest int, 2^63 - 1.
LargestInt ==
  <<"9", "2", "2", "3", "3", "7", "2", "0", "3", "6", "8", "5", "4", "7", "7", "5", "8", "0",
    "7">>

\* x writes a base-10 integer that an int holds.
IsInteger(x) == IsDigits(x) /\ NumeralLeq(Unpadded(x), LargestInt)

\* The components among major, minor and patch that are written and that
\* strconv.Atoi refuses: not a base-10 integer, or one outside int.
BadPartsOf(v) == {i \in 1..3 : i <= Len(PartsOf(v)) /\ ~IsInteger(PartsOf(v)[i])}

BadComponents == BadPartsOf(constraint.Version)

LeftmostBad == CHOOSE i \in BadComponents : \A j \in BadComponents : i <= j

ComponentMessage ==
  <<"invalid major version: %s", "invalid minor version: %s", "invalid patch version: %s">>

\* constraintToRegex has returned, with a pattern or an error.
Returned == pc \in {"converted", "compiled", "done"} \/ (pc = "failed" /\ ~ParseFailed)

\* C16: for >=, <=, >, <, caret and tilde (and its aliases), a literal whose
\* major, minor or patch is not a base-10 integer is rejected: the generator
\* returns an empty pattern and an error that names the leftmost failing
\* component and carries that component's text.
C16_BadComponentIsRejected ==
  (Returned /\ constraint.Operator \in NumericOperators /\ BadComponents # {})
    => /\ pc = "failed"
       /\ pattern = <<>>
       /\ err = Wrap("failed to convert to regex: %w",
                     Errorf(ComponentMessage[LeftmostBad], VersionParts[LeftmostBad]))

\* C16 witness: "<=1.x.3" has been rejected for its minor component "x".
C16_Witness ==
  /\ pc = "failed"
  /\ call.text = <<"<", "=", "1", ".", "x", ".", "3">>
  /\ err.msg = "failed to convert to regex: %w"
  /\ err.cause = Errorf("invalid minor version: %s", <<"x">>)

\* The bounds written in a Maven range "lower,upper".
RangeBounds ==
  {TrimSpace(Split(constraint.Version, ",")[k]) : k \in 1..Len(Split(constraint.Version, ","))}
    \ {<<>>}

\* The literal is malformed: a bound of a Maven range, or the literal of any
\* other operator, has a component that is not a base-10 integer.  Wildcard
\* literals and literals with the Go module prefix "v" are not counted: the
\* exact match is documented to accept them.
Malformed ==
  IF constraint.Operator = OP_MAVEN_RANGE
  THEN \E b \in RangeBounds : BadPartsOf(b) # {}
  ELSE /\ BadComponents # {}
       /\ ~Contains(constraint.Version, <<"*">>)
       /\ ~isGoModuleVersion(constraint.Version)

\* C17: for every operator, a literal (or range bound) with a component that
\* is not a base-10 integer makes constraintToRegex return an error, never a
\* pattern.
C17_NoPatternForMalformedLiteral ==
  (Returned /\ Malformed) => (pc = "failed" /\ pattern = <<>>)

(***************************************************************************)
(* Specification SpecConvert: constraintToRegex called on a constraint     *)
(* record of the caller's making, with operator tags of the closed set and *)
(* others; the pattern it returns is compiled and tried as before.         *)
(***************************************************************************)

\* The closed set of operator tags.
ClosedOperators == {operators[k] : k \in 1..Len(operators)} \cup {OP_MAVEN_RANGE}

\* Tags outside the closed set: unknown ones, the empty one, ones that differ
\* from a known tag by a character, by case or by white space.
OtherOperators ==
  {<<"?", "?">>,
   <<>>,
   <<"=", ">">>,
   <<">", ">">>,
   <<"=", "=", "=">>,
   <<" ", ">", "=">>,
   <<"m", "a", "v", "e", "n">>,
   <<"M", "A", "V", "E", "N", "-", "R", "A", "N", "G", "E">>}

\* The literals of SpecAny, and the texts of Maven ranges between their
\* brackets.
ConvertVersions ==
  AnyLiterals \cup
  {<<"1", ".", "0", ",", "2", ".", "0">>,
   <<"1", ".", "0", ",">>,
   <<",", "2", ".", "0">>,
   <<",">>}

ConvertCalls ==
  {[operator |-> o, version |-> v] :
     o \in ClosedOperators \cup OtherOperators, v \in ConvertVersions}

\* Versions with a character before or after them.
PaddedCandidates ==
  UNION {{<<"x">> \o c, c \o <<"x">>, <<" ">> \o c, c \o <<"\n">>, <<"0", ".">> \o c} :
           c \in {<<"1", ".", "2", ".", "3">>, <<"0", ".", "0", ".", "0">>}}

ConvertCandidates == AnyCandidates \cup PaddedCandidates

InitConvert == \E c \in ConvertCalls : Ready(c)

\* constraintToRegex(&VersionConstraint{Operator: ..., Version: ...}): the
\* error, if any, is the one constraintToRegex returns, not wrapped.
CallConstraintToRegex ==
  /\ pc = "ready"
  /\ constraint' = [Operator |-> call.operator, Version |-> call.version]
  /\ pattern' = constraintToRegex(constraint').pattern
  /\ err' = constraintToRegex(constraint').err
  /\ pc' = IF err' = Nil THEN "converted" ELSE "failed"
  /\ UNCHANGED <<call, cand, regex, matched, results>>

MatchConvert == MatchVersion(ConvertCandidates)

NextConvert == CallConstraintToRegex \/ CompileRegex \/ MatchConvert

SpecConvert == InitConvert /\ [][NextConvert]_vars

\* C18: constraintToRegex on an operator tag outside the closed set returns
\* an empty pattern and the error "unsupported operator" with the offending
\* operator, for every version literal.
C18_UnsupportedOperator ==
  (pc # "ready" /\ constraint.Operator \notin ClosedOperators)
    => /\ pc = "failed"
       /\ pattern = <<>>
       /\ err = Errorf("unsupported operator: %s", constraint.Operator)

\* C18 witness: the operator "??" before "1.2.3" has been rejected.
C18_Witness ==
  /\ pc = "failed"
  /\ call = [operator |-> <<"?", "?">>, version |-> <<"1", ".", "2", ".", "3">>]
  /\ err = Errorf("unsupported operator: %s", <<"?", "?">>)

\* The opening of a negative lookahead.
Lookahead == <<"(", "?", "!">>

\* C19: VersionToRegex on a not-equal constraint returns an error and no
\* compiled regex, for every literal: notEqualRegex returns a pattern and no
\* error, the pattern contains a negative lookahead, and the compilation of
\* that pattern fails.
C19_NotEqualFailsToCompile ==
  constraint.Operator = OP_NOT_EQUAL =>
    /\ pc \in {"parsed", "converted", "failed"}
    /\ pc = "converted" => (err = Nil /\ Contains(pattern, Lookahead))
    /\ pc = "failed" => (CompileFailed /\ ~regex.ok /\ Contains(pattern, Lookahead))

\* C19 witness: VersionToRegex("!=1.2.3") has failed to compile its pattern.
C19_Witness ==
  /\ CompileFailed
  /\ call.text = <<"!", "=", "1", ".", "2", ".", "3">>
  /\ constraint.Operator = OP_NOT_EQUAL
  /\ ~regex.ok

\* The pattern as a tree, lookahead included.
PatternTree == ParsePattern(pattern)

\* The one alternative of the tree's top level.
TopLevel == PatternTree.node.kids[1].kids

\* C20: every pattern that constraintToRegex returns without error begins
\* with "^" and ends with "$"; there is no alternation outside a group, so
\* the two anchors bind the whole pattern; and a candidate is matched only
\* as a whole, never on a proper substring.
C20_FullyAnchored ==
  /\ pc \in {"converted", "compiled", "done"}
       => /\ HasPrefix(pattern, REGEX_START) /\ HasSuffix(pattern, REGEX_END)
          /\ PatternTree.ok
               => /\ Len(PatternTree.node.kids) = 1
                  /\ TopLevel[1].t = "bol"
                  /\ TopLevel[Len(TopLevel)].t = "eol"
  /\ (pc = "done" /\ matched) => Len(cand) \in Ends(regex.node, cand, {0})

\* C20 witness: the pattern of ">=" on "0.0.0" has refused "x1.2.3".
C20_Witness ==
  /\ pc = "done"
  /\ call = [operator |-> OP_GREATER_EQUAL, version |-> <<"0", ".", "0", ".", "0">>]
  /\ cand = <<"x", "1", ".", "2", ".", "3">> /\ ~matched

(***************************************************************************)
(* Specification SpecParts: parseVersionParts called on literals of one to *)
(* four components, numbers and others, bare and with suffixes.            *)
(***************************************************************************)

\* Components: numbers, one with leading zeros, 2^63 (one above the largest
\* int), a word, nothing.
PartTexts ==
  {<<"1">>, <<"2", "0">>, <<"0", "3">>, <<"x">>, <<>>,
   <<"9", "2", "2", "3", "3", "7", "2", "0", "3", "6", "8", "5", "4", "7", "7", "5", "8", "0",
     "8">>}

\* What may follow the components.
PartSuffixes ==
  {<<>>,
   <<"-", "r", "c", ".", "1">>,
   <<"+", "b", ".", "5">>,
   <<"-", "a", "+", "b">>,
   <<"+", "b", "-", "7">>}

PartsLiterals ==
  {a \o sfx : a \in PartTexts, sfx \in PartSuffixes}
    \cup {a \o <<".">> \o b \o sfx : a \in PartTexts, b \in PartTexts, sfx \in PartSuffixes}
    \cup {Dotted(a, b, c) \o sfx :
            a \in PartTexts, b \in PartTexts, c \in PartTexts, sfx \in PartSuffixes}
    \cup {Dotted(a, b, c) \o <<".">> \o d \o sfx :
            a \in PartTexts, b \in PartTexts, c \in PartTexts, d \in {<<"4">>, <<"x">>},
            sfx \in PartSuffixes}

PartsCalls == {[version |-> v] : v \in PartsLiterals}

InitParts == \E c \in PartsCalls : Ready(c)

\* major, minor, patch, err := parseVersionParts(version): the caller keeps
\* the four values.
CallParseVersionParts ==
  /\ pc = "ready"
  /\ results' = Append(results, parseVersionParts(call.version))
  /\ err' = results'[1].err
  /\ pc' = IF err' = Nil THEN "done" ELSE "failed"
  /\ UNCHANGED <<call, cand, constraint, pattern, regex, matched>>

NextParts == CallParseVersionParts

SpecParts == InitParts /\ [][NextParts]_vars

\* The i-th component of the literal once its suffix is dropped, "0" if it
\* is not written.
Component(i) ==
  IF i <= Len(PartsOf(call.version)) THEN PartsOf(call.version)[i] ELSE <<"0">>

\* The largest number written in a literal of SpecParts.
MaxComponent == 20

\* The number that the digits x write.
ValueOf(x) == CHOOSE n \in 0..MaxComponent : Itoa(n) = Unpadded(x)

\* C22: parseVersionParts drops everything from the first "-" and from the
\* first "+", then returns the first three components as integers, 0 for a
\* minor or patch that is not written; each is non-negative.  If one of the
\* three is not an integer that an int holds it returns (0, 0, 0) and an
\* error.
C22_PartsOfLiteral ==
  pc \in {"done", "failed"} =>
    IF \A i \in 1..3 : IsInteger(Component(i))
    THEN /\ pc = "done"
         /\ results[1] = [major |-> Int64(ValueOf(Component(1))),
                          minor |-> Int64(ValueOf(Component(2))),
                          patch |-> Int64(ValueOf(Component(3))), err |-> Nil]
         /\ ~IsNegative(results[1].major) /\ ~IsNegative(results[1].minor)
         /\ ~IsNegative(results[1].patch)
    ELSE /\ pc = "failed"
         /\ results[1].err # Nil
         /\ IsZero(results[1].major) /\ IsZero(results[1].minor) /\ IsZero(results[1].patch)

\* C22 witness: "20.03-rc.1" has given (20, 3, 0).
C22_Witness ==
  /\ pc = "done"
  /\ call.version = <<"2", "0", ".", "0", "3", "-", "r", "c", ".", "1">>
  /\ results[1] = [major |-> Int64(20), minor |-> Int64(3), patch |-> Int64(0), err |-> Nil]

(***************************************************************************)
(* Specification SpecMaven: VersionToRegex on Maven ranges with both       *)
(* bounds, of every bracket pair, with candidates below, between, on and   *)
(* above the bounds.                                                       *)
(***************************************************************************)

\* Every major 0..MaxMaven is a bound.
MaxMaven == 2

MavenMinors == {0, 5}

MavenCalls ==
  {[open |-> o, close |-> c, lower |-> <<L, l, 0>>, upper |-> <<U, u, 0>>,
    text |-> o \o Itoa(L) \o <<".">> \o Itoa(l) \o <<",">>
               \o Itoa(U) \o <<".">> \o Itoa(u) \o c] :
     o \in {<<"[">>, <<"(">>}, c \in {<<"]">>, <<")">>},
     L \in 0..MaxMaven, U \in 0..MaxMaven, l \in MavenMinors, u \in MavenMinors}

MavenCandidates ==
  {Dotted(Itoa(X), Itoa(Y), Itoa(Z)) :
     X \in 0..(MaxMaven + 1), Y \in MavenMinors \cup {6}, Z \in {0, 1}}

InitMaven == \E c \in MavenCalls : Ready(c)

MatchMaven == MatchVersion(MavenCandidates)

NextMaven == ParseConstraint \/ ConvertConstraint \/ CompileRegex \/ MatchMaven

SpecMaven == InitMaven /\ [][NextMaven]_vars

\* A bound as the numerals of a triple.
Numerals(b) == <<Itoa(b[1]), Itoa(b[2]), Itoa(b[3])>>

\* The candidate is not below the lower bound: on it only after "[".
AboveLower ==
  IF call.open = <<"[">> THEN TripleLeq(Numerals(call.lower), Candidate)
  ELSE TripleLess(Numerals(call.lower), Candidate)

\* The candidate is not above the upper bound: on it only before "]".
BelowUpper ==
  IF call.close = <<"]">> THEN TripleLeq(Candidate, Numerals(call.upper))
  ELSE TripleLess(Candidate, Numerals(call.upper))

\* C23: a Maven range with both bounds matches a candidate "X.Y.Z" only if
\* the candidate lies between the bounds, a bound itself being included
\* after "[" and before "]" and excluded after "(" and before ")".
C23_MavenRangeWithinBounds ==
  (pc = "done" /\ matched) => (AboveLower /\ BelowUpper)

\* The constraint as the parser reads it: without its outer white space.
Trimmed == TrimSpace(call.text)

\* The text between the first and the last character.
Inner(s) == SubSeq(s, 2, Len(s) - 1)

\* The number of commas in x.
Commas(x) == Cardinality({i \in 1..Len(x) : x[i] = ","})

\* A text that starts like a range and is none: too short, not closed by
\* "]" or ")", or without exactly one comma between the brackets.
BadRange(s) ==
  \/ Len(s) < 3
  \/ s[Len(s)] \notin {"]", ")"}
  \/ Commas(Inner(s)) # 1

\* C24: a constraint that starts with "[" or "(" is rejected with an error,
\* and no regex is returned, when it has fewer than 3 characters, when its
\* last character is neither "]" nor ")", or when there is not exactly one
\* comma between the brackets; otherwise it is parsed as the operator
\* "maven-range" with the text between the brackets as version, whatever the
\* two bracket characters are.  (The comma is counted when the parsed
\* constraint is converted, so a rejected text may pass through "parsed".)
C24_MalformedRangeIsRejected ==
  (pc # "ready" /\ StartsRange(Trimmed)) =>
    IF BadRange(Trimmed)
    THEN /\ pc \in {"parsed", "failed"}
         /\ pc = "failed" => err # Nil
         /\ regex = NoRegex
    ELSE /\ ~ParseFailed
         /\ constraint = [Operator |-> OP_MAVEN_RANGE, Version |-> Inner(Trimmed)]

\* C24 witness: "[1.0,2.0", which is not closed, has been rejected.
C24_Witness ==
  /\ ParseFailed
  /\ call.text = <<"[", "1", ".", "0", ",", "2", ".", "0">>
  /\ regex = NoRegex

(***************************************************************************)
(* Specification SpecWild: wildcard literals of one to three components    *)
(* (and two of four) against dotted numerals of two to four components.    *)
(***************************************************************************)
MaxWild == 2

Star == <<"*">>

\* The components of a wildcard literal and of a candidate.
WildComponents == {Itoa(n) : n \in 1..MaxWild} \cup {Star}
WildCandidateComponents == {Itoa(n) : n \in 1..MaxWild} \cup {Itoa(MaxWild + 11)}

SeqsUpTo(S, lo, hi) == UNION {[1..n -> S] : n \in lo..hi}

WildLiterals ==
  {parts \in SeqsUpTo(WildComponents, 1, 3) : \E i \in 1..Len(parts) : parts[i] = Star}
    \cup {<<Itoa(1), Itoa(2), Itoa(1), Star>>, <<Star, Itoa(1), Itoa(2), Itoa(1)>>}

WildCalls == {[parts |-> parts, text |-> Join(parts, <<".">>)] : parts \in WildLiterals}

WildCandidates == {Join(parts, <<".">>) : parts \in SeqsUpTo(WildCandidateComponents, 2, 4)}

InitWild == \E c \in WildCalls : Ready(c)

MatchWild == MatchVersion(WildCandidates)

NextWild == ParseConstraint \/ ConvertConstraint \/ CompileRegex \/ MatchWild

SpecWild == InitWild /\ [][NextWild]_vars

\* The components a candidate must have: those of the literal, followed by
\* "*" up to three components when the literal ends in "*".
RECURSIVE Starred(_)
Starred(parts) == IF Len(parts) < 3 THEN Starred(Append(parts, Star)) ELSE parts

Expected(parts) == IF parts[Len(parts)] = Star THEN Starred(parts) ELSE parts

Fits(candParts, parts) ==
  /\ Len(candParts) = Len(parts)
  /\ \A i \in 1..Len(parts) : parts[i] = Star \/ candParts[i] = parts[i]

\* C25: a wildcard literal matches a dotted numeral exactly when the numeral
\* has the literal's number of components (three at least, when the literal
\* ends in "*") and equals the literal in every component that is not "*":
\* "A.*" matches X.Y.Z iff X = A, "A.B.*" iff X = A and Y = B, "A.*.C" iff
\* X = A and Z = C, and a literal that does not end in "*" is not padded.
C25_WildcardComponents ==
  pc = "done" => (matched <=> Fits(Split(cand, "."), Expected(call.parts)))

\* C25 witness: "1.*.2" matches "1.13.2", whose minor has two digits.
C25_Witness ==
  /\ pc = "done"
  /\ call.parts = <<Itoa(1), Star, Itoa(2)>>
  /\ cand = Dotted(Itoa(1), Itoa(MaxWild + 11), Itoa(2))
  /\ matched

(***************************************************************************)
(* Specification SpecGo: Go module literals "vM.m.p", "vM.m.p-T" and       *)
(* pseudo-versions against candidates with and without the "v", with       *)
(* another triple, and with the same, a longer and another tag.            *)
(***************************************************************************)
MaxGo == 1

\* Pre-release tags: two without a dot, two with dots.
PlainTags == {<<"a", "l", "p", "h", "a">>, <<"r", "c">>}
DottedTags ==
  {<<"b", "e", "t", "a", ".", "1">>,
   <<"r", "c", ".", "f", "i", "n", "a", "l", "-", "t", "e", "s", "t">>}
GoTags == PlainTags \cup DottedTags

\* The third has a time stamp of 14 characters and 15 bytes.
PseudoVersions ==
  {<<"v", "0", ".", "0", ".", "0", "-",
     "2", "0", "2", "1", "0", "1", "0", "1", "0", "0", "0", "0", "0", "é", "-",
     "a", "b", "c", "d", "e", "f", "1", "2", "3", "4", "5", "6">>,
   <<"v", "0", ".", "0", ".", "0", "-",
     "2", "0", "2", "1", "0", "1", "0", "1", "0", "0", "0", "0", "0", "0", "-",
     "a", "b", "c", "d", "e", "f", "1", "2", "3", "4", "5", "6">>,
   <<"v", "0", ".", "0", ".", "0", "-",
     "2", "0", "2", "1", "0", "1", "0", "2", "0", "0", "0", "0", "0", "0", "-",
     "a", "b", "c", "d", "e", "f", "1", "2", "3", "4", "5", "6">>}

GoTriples == {Dotted(Itoa(x), Itoa(y), Itoa(z)) : x \in 0..MaxGo, y \in 0..MaxGo, z \in 0..MaxGo}

GoCalls ==
  {[kind |-> "release", base |-> <<"v">> \o t, tag |-> <<>>, text |-> <<"v">> \o t] :
     t \in GoTriples}
    \cup {[kind |-> "prerelease", base |-> <<"v">> \o t, tag |-> g,
           text |-> <<"v">> \o t \o <<"-">> \o g] : t \in GoTriples, g \in GoTags}
    \cup {[kind |-> "pseudo", base |-> SubSeq(x, 1, 6), tag |-> SubSeq(x, 8, Len(x)),
           text |-> x] : x \in PseudoVersions}

\* The candidates for a literal: its base, its base with every tag and with
\* more text after the tag, the same without "v", the bases of the other
\* triples, the literal with its last character changed, the base followed
\* by a fourth component.
GoCandidates(c) ==
  {<<"v">> \o t : t \in GoTriples}
    \cup {c.base \o <<"-">> \o g \o more : g \in GoTags, more \in {<<>>, <<".", "2">>, <<"x">>}}
    \cup {c.text \o more : more \in {<<>>, <<".", "2">>, <<"x">>, <<"-", "1">>, <<"\t", "x">>, <<"\n", "x">>}}
    \cup {Tail(c.base), Tail(c.text), Tail(c.base) \o <<"-">> \o <<"a", "l", "p", "h", "a">>}
    \cup {SubSeq(c.text, 1, Len(c.text) - 1) \o <<"7">>}
    \cup {c.base \o <<".", "1">>, c.base \o <<".", "f", "i", "n", "a", "l">>}
    \cup PseudoVersions

InitGo == \E c \in GoCalls : Ready(c)

MatchGo == MatchVersion(GoCandidates(call))

NextGo == ParseConstraint \/ ConvertConstraint \/ CompileRegex \/ MatchGo

SpecGo == InitGo /\ [][NextGo]_vars

\* The candidate is "vM.m.p" for some triple of the specification.
IsBase(x) == \E t \in GoTriples : x = <<"v">> \o t

\* C26: a pseudo-version is matched by the identical string only; "vM.m.p"
\* matches "vM.m.p" and "vM.m.p-<tag>", and neither a candidate with
\* another triple nor one without the "v"; "vM.m.p-T" matches exactly
\* "vM.m.p" and the candidates that continue "vM.m.p-T" with any text.
C26_GoModuleLiteral ==
  pc = "done" =>
    CASE call.kind = "pseudo" -> (matched <=> cand = call.text)
      [] call.kind = "release" ->
           /\ (cand = call.base \/ (HasPrefix(cand, call.base)
                                     /\ IsTag(SubSeq(cand, Len(call.base) + 1, Len(cand)), "-")))
                => matched
           /\ ((IsBase(cand) /\ cand # call.base) \/ ~HasPrefix(cand, <<"v">>)) => ~matched
      [] call.kind = "prerelease" ->
           matched <=> (cand = call.base \/ HasPrefix(cand, call.text))

(***************************************************************************)
(* Specification SpecApi: VersionToRegex, VersionMatches and               *)
(* MustVersionToRegex called, in any order, on the same constraint; the    *)
(* caller keeps what each one returned.                                    *)
(***************************************************************************)

\* VersionToRegex as one function: the three steps of the call above.
Compiled(p, r) ==
  IF r.ok THEN [regex |-> r, err |-> Nil]
  ELSE [regex |-> NoRegex,
        err |-> Wrap("failed to compile regex: %w", Errorf("error parsing regexp: %s", p))]

ConvertedThenCompiled(r) ==
  IF r.err # Nil
  THEN [regex |-> NoRegex, err |-> Wrap("failed to convert to regex: %w", r.err)]
  ELSE Compiled(r.pattern, Compile(r.pattern))

ParsedThenConverted(r) ==
  IF r.err # Nil
  THEN [regex |-> NoRegex, err |-> Wrap("failed to parse version constraint: %w", r.err)]
  ELSE ConvertedThenCompiled(constraintToRegex(r.constraint))

VersionToRegex(versionStr) == ParsedThenConverted(parseVersionConstraint(versionStr))

\* What VersionMatches returns once VersionToRegex returned r.
MatchedBy(r, versionStr) ==
  IF r.err # Nil THEN [matched |-> FALSE, err |-> r.err]
  ELSE [matched |-> MatchString(r.regex.node, versionStr), err |-> Nil]

\* VersionMatches that answers false, without an error, for a constraint
\* that VersionToRegex rejects.
VersionMatchesWithoutError(versionStr, constraintStr) ==
  [matched |-> Tried(VersionToRegex(constraintStr).regex, versionStr), err |-> Nil]

VersionMatches(versionStr, constraintStr) ==
  MatchedBy(VersionToRegex(constraintStr), versionStr)

\* What MustVersionToRegex does once VersionToRegex returned r: it returns
\* the regex, or panics with a message made of the constraint and the error.
Must(r, versionStr) ==
  IF r.err # Nil
  THEN [regex |-> NoRegex,
        panic |-> [msg |-> "MustVersionToRegex(%q): %v", arg |-> versionStr, cause |-> r.err]]
  ELSE [regex |-> r.regex, panic |-> Nil]

MustVersionToRegex(versionStr) == Must(VersionToRegex(versionStr), versionStr)

\* The constraints and versions of the repository's tests of the three
\* functions, the texts for the parser and the Maven ranges.
ApiTexts ==
  {<<"1", ".", "2", ".", "3">>, <<"^", "1", ".", "2", ".", "3">>, <<"~", "1", ".", "2", ".", "3">>, <<">", "=", "2", ".", "0", ".", "0">>, <<"!", "=", "1", ".", "2", ".", "3">>,
   <<">", ">", "i", "n", "v", "a", "l", "i", "d">>, <<"[", "i", "n", "v", "a", "l", "i", "d">>}
    \cup ParserTexts \cup MavenTexts

ApiVersions == {<<"1", ".", "2", ".", "3">>, <<"1", ".", "2", ".", "5">>, <<"1", ".", "3", ".", "0">>, <<"2", ".", "0", ".", "0">>}

ApiCalls == {[text |-> t, version |-> v] : t \in ApiTexts, v \in ApiVersions}

Functions == {"VersionToRegex", "VersionMatches", "MustVersionToRegex"}

Called(fn) == \E i \in 1..Len(results) : results[i].fn = fn

\* The result of one call is kept; the caller is done after the third.
Kept(fn, out) ==
  /\ pc = "ready"
  /\ ~Called(fn)
  /\ results' = Append(results, [fn |-> fn, out |-> out])
  /\ pc' = IF Len(results') = Cardinality(Functions) THEN "done" ELSE "ready"
  /\ UNCHANGED <<call, cand, constraint, pattern, regex, err, matched>>

CallVersionToRegex == Kept("VersionToRegex", VersionToRegex(call.text))

CallVersionMatches == Kept("VersionMatches", VersionMatches(call.version, call.text))

CallMustVersionToRegex == Kept("MustVersionToRegex", MustVersionToRegex(call.text))

InitApi == \E c \in ApiCalls : Ready(c)

NextApi == CallVersionToRegex \/ CallVersionMatches \/ CallMustVersionToRegex

SpecApi == InitApi /\ [][NextApi]_vars

\* What the function fn returned, once it has been called.
Out(fn) == results[CHOOSE i \in 1..Len(results) : results[i].fn = fn].out

\* C27: VersionMatches returns (false, error) exactly when VersionToRegex
\* returns an error, the same one, and otherwise (r, nil) with r the answer
\* of the regex of VersionToRegex on the version; MustVersionToRegex panics
\* exactly when VersionToRegex returns an error and otherwise returns the
\* same regex.
C27_ConvenienceFunctionsAgree ==
  pc = "done" =>
    /\ Out("VersionMatches").err # Nil <=> Out("VersionToRegex").err # Nil
    /\ Out("VersionMatches").err = Out("VersionToRegex").err
    /\ Out("VersionToRegex").err # Nil => ~Out("VersionMatches").matched
    /\ Out("VersionToRegex").err = Nil =>
         (Out("VersionMatches").matched
            <=> MatchString(Out("VersionToRegex").regex.node, call.version))
    /\ Out("MustVersionToRegex").panic # Nil <=> Out("VersionToRegex").err # Nil
    /\ Out("VersionToRegex").err = Nil =>
         Out("MustVersionToRegex").regex = Out("VersionToRegex").regex

\* C27 witness: on ">>invalid" VersionToRegex and VersionMatches returned an
\* error and MustVersionToRegex panicked.
C27_Witness ==
  /\ pc = "done"
  /\ call.text = <<">", ">", "i", "n", "v", "a", "l", "i", "d">>
  /\ Out("VersionToRegex").err # Nil
  /\ Out("VersionMatches") = [matched |-> FALSE, err |-> Out("VersionToRegex").err]
  /\ Out("MustVersionToRegex").panic # Nil

\* The compiled comparison pattern r with clause k alone in its group.
OnlyClause(r, k) == [r.node EXCEPT !.kids[1].kids[2].kids = <<@[k]>>]

\* The clauses of the compiled pattern that match the candidate.
MatchingClauses == {k \in 1..Clauses(regex) : MatchString(OnlyClause(regex, k), cand)}

\* C28 as stated, for every literal "M.m.p": a candidate matches at most one
\* of the clauses joined by alternation.
C28_EveryTriple ==
  (pc = "done" /\ call.op \in ComparisonOperators) => Cardinality(MatchingClauses) <= 1

\* For >= and >, the candidate has the literal's major where M + 1 wraps (M
\* is the largest int, and the major clause accepts every major), or the
\* literal's major and minor where m + 1 wraps (the minor clause accepts
\* every minor): the wrapped clause no longer excludes the clauses after it.
Wrapped ==
  /\ call.op \in {OP_GREATER_EQUAL, OP_GREATER}
  /\ IsTriple(cand)
  /\ Candidate[1] = CmpLiteral[1]
  /\ (call.major = MaxInt64 \/ (call.minor = MaxInt64 /\ Candidate[2] = CmpLiteral[2]))

\* C28: for >=, <=, > and < and every literal "M.m.p", the clauses joined by
\* alternation exclude one another: a candidate matches at most one of them
\* (and the pattern matches exactly when one of them does), but for a
\* candidate of >= or > with X = M where M is the largest int, or with
\* X = M and Y = m where m is the largest int.
C28_ClausesExcludeOneAnother ==
  (pc = "done" /\ call.op \in ComparisonOperators) =>
    /\ ~Wrapped => Cardinality(MatchingClauses) <= 1
    /\ matched <=> MatchingClauses # {}

\* C28 witness: ">=1.1.1", of three clauses, has matched "1.2.0" by its
\* second clause alone.
C28_Witness ==
  /\ pc = "done" /\ call.op = OP_GREATER_EQUAL
  /\ call.major = Int64(1) /\ call.minor = Int64(1) /\ call.patch = Int64(1)
  /\ cand = Dotted(Itoa(1), Itoa(2), Itoa(0))
  /\ Clauses(regex) = 3
  /\ MatchingClauses = {2}

(***************************************************************************)
(* Specification SpecLiteral: literals that pass none, one or several of   *)
(* the tests of exactMatchRegex, converted by VersionToRegex and tried on  *)
(* versions with and without suffixes.                                     *)
(***************************************************************************)
DispatchLiterals ==
  {<<"1", ".", "2", ".", "3">>,
   <<"1", ".", "2">>,
   <<"1">>,
   <<"v">>,
   <<"1", ".", "2", ".", "3", "-", "d", "e", "v">>,
   <<"1", ".", "2", ".", "3", "+", "b", "u", "i", "l", "d">>,
   <<"1", ".", "2", ".", "3", "-", "d", "e", "v", "+", "b", "u", "i", "l", "d">>,
   <<"1", ".", "2", ".", "3", "+", "b", "u", "i", "l", "d", ".", "1", "2", "3">>,
   <<"1", ".", "2", ".", "3", "-", "r", "c", ".", "1">>,
   <<"1", ".", "2", ".", "3", ".", "4">>,
   <<"1", ".", "2", ".", "3", ".", "4", ".", "5">>,
   <<"1", ".", "2", ".", "3", "-", "a", "l", "p", "h", "a">>,
   <<"1", ".", "0", ".", "0", "-", "b", "e", "t", "a", "0", "0", "1">>,
   <<"1", ".", "0", ".", "0", "-", "p", "r", "e", "v", "i", "e", "w", "+", "b">>,
   <<"1", ".", "2", ".", "3", "-", "r", "c">>,
   <<"v", "1", ".", "2", ".", "3">>,
   <<"v", "1", ".", "2", ".", "3", ".", "4">>,
   <<"v", "1", ".", "0", ".", "0", "-", "a", "l", "p", "h", "a">>,
   <<"v", "1", ".", "*">>,
   <<"1", ".", "*">>,
   <<"1", ".", "2", ".", "3", ".", "*">>,
   <<"*">>,
   <<"1", ".", "2", ".", "*", "-", "a", "l", "p", "h", "a">>,
   <<"v", "1", ".", "2", ".", "3", "+", "b", "u", "i", "l", "d", ".", "1">>}

DispatchCandidates ==
  {<<"1", ".", "2", ".", "3">>,
   <<"1", ".", "2", ".", "3", "-", "r", "c", ".", "1", "+", "b", "u", "i", "l", "d", ".", "1", "2", "3">>,
   <<"1", ".", "2", ".", "3", "+", "b", "u", "i", "l", "d", ".", "1", "2", "3">>,
   <<"1", ".", "2", ".", "3", "+", "b", "u", "i", "l", "d", ".", "1", "2", "3", "-", "a", "l", "p", "h", "a", "1">>,
   <<"1", ".", "2", ".", "3", "-", "d", "e", "v", "+", "b", "u", "i", "l", "d">>,
   <<"v", "1", ".", "2", ".", "3">>,
   <<"v", "1", ".", "2", ".", "3", "-", "r", "c">>,
   <<"1", ".", "2", ".", "3", ".", "4">>,
   <<"1", ".", "2", ".", "3", ".", "4", "-", "b", "e", "t", "a", ".", "2">>,
   <<"1", ".", "2", ".", "3", "-", "a", "l", "p", "h", "a">>,
   <<"1", ".", "2", ".", "3", "-", "a", "l", "p", "h", "a", "+", "b">>,
   <<"1", ".", "9", ".", "9", "-", "r", "c", "+", "b">>,
   <<"v", "1", ".", "9", ".", "9">>,
   <<"1", ".", "2">>,
   <<"v">>}

LiteralCalls == {[text |-> t] : t \in DispatchLiterals}

InitLiteral == \E c \in LiteralCalls : Ready(c)

MatchLiteral == MatchVersion(DispatchCandidates)

NextLiteral == ParseConstraint \/ ConvertConstraint \/ CompileRegex \/ MatchLiteral

SpecLiteral == InitLiteral /\ [][NextLiteral]_vars

\* The three tests, as the claim words them.
IsWildcardLiteral(x) == \E i \in 1..Len(x) : x[i] = "*"
IsGoLiteral(x) == Len(x) > 1 /\ x[1] = "v"
IsCSharpLiteral(x) ==
  \/ Len(Split(x, ".")) = 4
  \/ \E t \in {<<"-", "a", "l", "p", "h", "a">>, <<"-", "b", "e", "t", "a">>, <<"-", "r", "c">>, <<"-", "p", "r", "e", "v", "i", "e", "w">>} : Contains(x, t)

\* The first test that succeeds, in the fixed order.
FirstTest(x) ==
  IF IsWildcardLiteral(x) THEN "wildcard"
  ELSE IF IsGoLiteral(x) THEN "go"
  ELSE IF IsCSharpLiteral(x) THEN "csharp"
  ELSE "standard"

\* The pattern of the formatter that the first successful test selects.
Formatted(x) ==
  CASE FirstTest(x) = "wildcard" -> wildcardToRegex(x)
    [] FirstTest(x) = "go" -> goModuleVersionRegex(x)
    [] FirstTest(x) = "csharp" -> csharpVersionRegex(x)
    [] OTHER -> StandardSplit(x, IndexByte(x, "+"))

\* The pattern ends in the general optional pre-release and build-metadata
\* suffix.
EndsInGeneralSuffix(p) == HasSuffix(p, VERSION_SUFFIX_PATTERN \o REGEX_END)

\* "1.2.3+build.123": four parts between dots, the last one in the build tag.
BuildLiteral == <<"1", ".", "2", ".", "3", "+", "b", "u", "i", "l", "d", ".", "1", "2", "3">>

\* C29 as stated: every literal is formatted by the formatter of the first
\* successful test; "1.2.3+build.123" by the C# one; and the standard branch
\* is the only one that appends the general optional suffix.
C29_OnlyStandardAppendsSuffix ==
  pc \in {"converted", "compiled", "done"} =>
    /\ pattern = Formatted(call.text)
    /\ call.text = BuildLiteral => pattern = csharpVersionRegex(call.text)
    /\ EndsInGeneralSuffix(pattern) => FirstTest(call.text) = "standard"

\* C29: every literal is formatted by exactly one formatter, that of the
\* first test that succeeds in the order wildcard, Go module, C#, standard;
\* so the standard branch is reached only by literals that pass none of the
\* three tests, and "1.2.3+build.123", of four dot-separated parts, is
\* formatted by the C# branch.  The general optional suffix is appended by
\* the standard branch and by the wildcard branch, and by no other.
C29_FirstTestSelectsFormatter ==
  pc \in {"converted", "compiled", "done"} =>
    /\ pattern = Formatted(call.text)
    /\ call.text = BuildLiteral => pattern = csharpVersionRegex(call.text)
    /\ EndsInGeneralSuffix(pattern) => FirstTest(call.text) \in {"standard", "wildcard"}

\* C29 witness: "1.2.3+build.123" has been formatted by the C# branch: it
\* matches "1.2.3+build.123-alpha1", which the standard branch would refuse.
C29_Witness ==
  /\ pc = "done"
  /\ call.text = BuildLiteral
  /\ pattern = csharpVersionRegex(call.text)
  /\ pattern # StandardSplit(call.text, IndexByte(call.text, "+"))
  /\ cand = BuildLiteral \o <<"-", "a", "l", "p", "h", "a">> \o <<"1">>
  /\ matched

\* The operators of the cases of the switch in constraintToRegex.
Dispatched ==
  {OP_EQUAL_EQUAL, OP_EQUAL, OP_GREATER_EQUAL, OP_LESS_EQUAL, OP_GREATER, OP_LESS,
   OP_NOT_EQUAL, OP_CARET, OP_TILDE, OP_PESSIMISTIC, OP_COMPATIBLE, OP_MAVEN_RANGE}

\* The error of the default case, alone or wrapped.
IsUnsupported(e) ==
  \/ e.msg = "unsupported operator: %s"
  \/ "cause" \in DOMAIN e /\ e.cause.msg = "unsupported operator: %s"

\* C30: whenever parseVersionConstraint succeeds, the operator it returns is
\* one of the cases of constraintToRegex; so VersionToRegex never fails with
\* "unsupported operator", whatever the input.
C30_ParsedOperatorIsDispatched ==
  /\ (pc # "ready" /\ ~ParseFailed) => constraint.Operator \in Dispatched
  /\ ~IsUnsupported(err)

\* C30 witness: "=>1.2.3", which starts with no operator of two characters,
\* has been parsed as "=" before ">1.2.3" and converted.
C30_Witness ==
  /\ pc \in {"converted", "compiled", "done"}
  /\ call.text = <<"=", ">", "1", ".", "2", ".", "3">>
  /\ constraint = [Operator |-> OP_EQUAL, Version |-> <<">", "1", ".", "2", ".", "3">>]

====
